---- MODULE Spec2Model ----
(***************************************************************************)
(* A model of the configuration loader of sweagent/config/config_loader.py *)
(* (ConfigLoader): the document store, the path resolver, the deep merger  *)
(* with its list merge, and the recursive resolution of `extends`.         *)
(*                                                                         *)
(* Config trees.  A YAML value is a record with the same four fields       *)
(* whatever its type, so that any two trees can be compared:               *)
(*   t    : "str" | "num" | "null" | "list" | "map"                        *)
(*   s    : the text of a scalar (a Python str, or the digits of a number) *)
(*   keys : the keys of a mapping, in insertion order (Python dicts keep   *)
(*          it, and _normalize_list_item depends on it)                    *)
(*   kids : the items of a list, or the values of a mapping (kids[i] is    *)
(*          the value of keys[i])                                          *)
(* Strings are TLA+ strings; startswith and slicing are SubSeq on them.    *)
(***************************************************************************)
EXTENDS Integers, Sequences, FiniteSets, TLC

Str(s) == [t |-> "str", s |-> s, keys |-> <<>>, kids |-> <<>>]
Num(s) == [t |-> "num", s |-> s, keys |-> <<>>, kids |-> <<>>]
Null == [t |-> "null", s |-> "", keys |-> <<>>, kids |-> <<>>]
List(items) == [t |-> "list", s |-> "", keys |-> <<>>, kids |-> items]
Map(keys, kids) == [t |-> "map", s |-> "", keys |-> keys, kids |-> kids]
EmptyMap == Map(<<>>, <<>>)

IsStr(x) == x.t = "str"
IsList(x) == x.t = "list"
IsMap(x) == x.t = "map"

Range(seq) == {seq[i] : i \in 1..Len(seq)}

\* F(x) with x evaluated once (TLC passes arguments unevaluated, and
\* evaluates them again at every use when it evaluates ENABLED)
Once(x, F(_)) == CHOOSE r \in {F(v) : v \in {x}} : TRUE

\* str.startswith(prefix)
StartsWith(s, prefix) ==
    /\ Len(s) >= Len(prefix)
    /\ SubSeq(s, 1, Len(prefix)) = prefix

\* s[1:]
DropFirst(s) == SubSeq(s, 2, Len(s))

\* str.lower(), for the letters of ASCII
UpperLetters == "ABCDEFGHIJKLMNOPQRSTUVWXYZ"
LowerLetters == "abcdefghijklmnopqrstuvwxyz"
LowerChar(c) ==
    IF \E i \in 1..Len(UpperLetters) : SubSeq(UpperLetters, i, i) = c
    THEN LET i == CHOOSE j \in 1..Len(UpperLetters) : SubSeq(UpperLetters, j, j) = c
         IN SubSeq(LowerLetters, i, i)
    ELSE c

RECURSIVE Lower(_)
Lower(s) == IF s = "" THEN "" ELSE LowerChar(SubSeq(s, 1, 1)) \o Lower(DropFirst(s))

\* sub in s
Contains(s, sub) ==
    \E i \in 1..(Len(s) - Len(sub) + 1) : SubSeq(s, i, i + Len(sub) - 1) = sub

\* the characters str.strip() and str.split() take for white space
IsSpace(c) == c \in {" ", "\t", "\n", "\r"}

\* s.lstrip()
RECURSIVE Lstrip(_)
Lstrip(s) == IF s # "" /\ IsSpace(SubSeq(s, 1, 1)) THEN Lstrip(DropFirst(s)) ELSE s

\* s.rstrip()
RECURSIVE Rstrip(_)
Rstrip(s) ==
    IF s # "" /\ IsSpace(SubSeq(s, Len(s), Len(s))) THEN Rstrip(SubSeq(s, 1, Len(s) - 1)) ELSE s

\* s.strip()
Strip(s) == Lstrip(Rstrip(s))

\* s.lstrip("#")
RECURSIVE LstripHash(_)
LstripHash(s) == IF s # "" /\ SubSeq(s, 1, 1) = "#" THEN LstripHash(DropFirst(s)) ELSE s

\* key in d
HasKey(d, key) == \E i \in 1..Len(d.keys) : d.keys[i] = key

KeyIndex(d, key) == CHOOSE i \in 1..Len(d.keys) : d.keys[i] = key

\* d[key]
Get(d, key) == d.kids[KeyIndex(d, key)]

\* d[key] = value: a new key goes last, a present key keeps its place
SetKey(dict, key, value) ==
    Once(dict, LAMBDA d :
        IF HasKey(d, key)
        THEN [d EXCEPT !.kids[KeyIndex(d, key)] = value]
        ELSE Map(Append(d.keys, key), Append(d.kids, value)))

\* d.pop(key, None): the mapping without the key
DelKey(d, key) ==
    LET keep == {i \in 1..Len(d.keys) : d.keys[i] # key}
        RECURSIVE Pick(_)
        Pick(i) == IF i > Len(d.keys) THEN <<>>
                   ELSE IF i \in keep THEN <<i>> \o Pick(i + 1) ELSE Pick(i + 1)
        idx == Pick(1)
    IN Map([j \in 1..Len(idx) |-> d.keys[idx[j]]], [j \in 1..Len(idx) |-> d.kids[idx[j]]])

\* Python's == on two trees: mappings are equal whatever the order of their keys
RECURSIVE TreeEq(_, _)
TreeEq(a, b) ==
    /\ a.t = b.t
    /\ a.s = b.s
    /\ IF IsMap(a)
       THEN /\ Range(a.keys) = Range(b.keys)
            /\ \A i \in 1..Len(a.keys) : TreeEq(a.kids[i], Get(b, a.keys[i]))
       ELSE /\ Len(a.kids) = Len(b.kids)
            /\ \A i \in 1..Len(a.kids) : TreeEq(a.kids[i], b.kids[i])

(***************************************************************************)
(* The deep merger: _normalize_list_item, _merge_lists, _deep_merge.       *)
(***************************************************************************)

\* the loop of _normalize_list_item over item.items(), from the i-th pair on
RECURSIVE NormalizeKeys(_, _, _)
NormalizeKeys(item, i, normalized) ==
    Once(normalized, LAMBDA acc :
        IF i > Len(item.keys) THEN acc
        ELSE LET key == item.keys[i]
                 value == item.kids[i]
             IN IF StartsWith(key, "+")
                THEN NormalizeKeys(item, i + 1,
                         [n |-> SetKey(acc.n, DropFirst(key), value), a |-> TRUE])
                ELSE NormalizeKeys(item, i + 1,
                         [n |-> SetKey(acc.n, key, value), a |-> acc.a]))

\* s.lstrip("+")
RECURSIVE StripAllPlus(_)
StripAllPlus(s) == IF StartsWith(s, "+") THEN StripAllPlus(DropFirst(s)) ELSE s

\* a normalization that removes every leading `+` of a string item
NormalizeListItemGreedy(item) ==
    IF IsStr(item) /\ StartsWith(item.s, "+")
    THEN [n |-> Str(StripAllPlus(item.s)), a |-> TRUE]
    ELSE IF IsMap(item)
         THEN NormalizeKeys(item, 1, [n |-> EmptyMap, a |-> FALSE])
         ELSE [n |-> item, a |-> FALSE]

\* a normalization that marks append items and leaves their prefix
NormalizeListItemUnstripped(item) ==
    IF IsStr(item) /\ StartsWith(item.s, "+")
    THEN [n |-> item, a |-> TRUE]
    ELSE IF IsMap(item)
         THEN [n |-> item, a |-> NormalizeKeys(item, 1, [n |-> EmptyMap, a |-> FALSE]).a]
         ELSE [n |-> item, a |-> FALSE]

\* _normalize_list_item(item): [n |-> normalized, a |-> should_append]
NormalizeListItem(item) ==
    IF IsStr(item) /\ StartsWith(item.s, "+")
    THEN [n |-> Str(DropFirst(item.s)), a |-> TRUE]
    ELSE IF IsMap(item)
         THEN NormalizeKeys(item, 1, [n |-> EmptyMap, a |-> FALSE])
         ELSE [n |-> item, a |-> FALSE]

\* the items of seq chosen by keep, in their order
RECURSIVE SelectItems(_, _, _)
SelectItems(seq, i, want) ==
    IF i > Len(seq) THEN <<>>
    ELSE LET r == NormalizeListItem(seq[i])
         IN (IF r.a = want THEN <<r.n>> ELSE <<>>) \o SelectItems(seq, i + 1, want)

\* a list merge that starts from the replacement items even when there are none
MergeListsDropBase(base, override) ==
    SelectItems(override, 1, FALSE) \o SelectItems(override, 1, TRUE)

\* a list merge that leaves the override's items where they stand
MergeListsInOrder(base, override) ==
    IF SelectItems(override, 1, FALSE) # <<>>
    THEN [i \in 1..Len(override) |-> NormalizeListItem(override[i]).n]
    ELSE base \o SelectItems(override, 1, TRUE)

\* _merge_lists(base, override), on the items of the two lists
MergeLists(base, override) ==
    LET replacements == SelectItems(override, 1, FALSE)
        append_items == SelectItems(override, 1, TRUE)
        result == IF replacements # <<>> THEN replacements ELSE base
    IN result \o append_items

RECURSIVE DeepMerge(_, _)
\* a merge that replaces a mapping by the override's mapping (dict.update)
MergeKeyShallow(merged_so_far, key, value) == SetKey(merged_so_far, key, value)

\* a merge that skips the keys the base lacks
MergeKeyKnownOnly(merged_so_far, key, value) ==
    IF ~HasKey(merged_so_far, key) THEN merged_so_far
    ELSE IF IsMap(Get(merged_so_far, key)) /\ IsMap(value)
         THEN SetKey(merged_so_far, key, DeepMerge(Get(merged_so_far, key), value))
         ELSE SetKey(merged_so_far, key, value)

\* one turn of the loop of _deep_merge: merged[key] after seeing override's pair
MergeKey(merged_so_far, key, value) ==
    Once(merged_so_far, LAMBDA merged :
        IF ~HasKey(merged, key) THEN SetKey(merged, key, value)
        ELSE Once(Get(merged, key), LAMBDA cur :
                IF IsMap(cur) /\ IsMap(value)
                THEN SetKey(merged, key, DeepMerge(cur, value))
                ELSE IF IsList(cur) /\ IsList(value)
                     THEN SetKey(merged, key, List(MergeLists(cur.kids, value.kids)))
                     ELSE SetKey(merged, key, value)))

RECURSIVE MergeFrom(_, _, _)
MergeFrom(merged, override, i) ==
    IF i > Len(override.keys) THEN merged
    ELSE MergeFrom(MergeKey(merged, override.keys[i], override.kids[i]), override, i + 1)

\* _deep_merge(base, override) for two mappings
DeepMerge(base, override) == Once(override, LAMBDA o : MergeFrom(base, o, 1))

(***************************************************************************)
(* Paths.  A path is a string; pathlib's operations on it are computed on  *)
(* its components.  The file system has no symbolic links, so              *)
(* Path.resolve() is the lexical normal form of the absolute path.         *)
(***************************************************************************)

\* Path.cwd()
CWD == "/w"
\* self.base_dir (an absolute directory)
BaseDir == "/cfg"

RECURSIVE SplitFrom(_, _, _)
SplitFrom(s, from, part) ==
    Once(<<from, part>>, LAMBDA v :
        LET i == v[1]
            cur == v[2]
            done == IF cur = "" THEN <<>> ELSE <<cur>>
        IN IF i > Len(s) THEN done
           ELSE IF SubSeq(s, i, i) = "/"
                THEN done \o SplitFrom(s, i + 1, "")
                ELSE SplitFrom(s, i + 1, cur \o SubSeq(s, i, i)))

\* Path(s).parts without the root: empty and "." components are dropped
Parts(path) == Once(path, LAMBDA s : SelectSeq(SplitFrom(s, 1, ""), LAMBDA p : p # "."))

\* Path(s).is_absolute()
IsAbsolute(s) == StartsWith(s, "/")

RECURSIVE Collapse(_, _)
Collapse(parts, resolved) ==
    Once(resolved, LAMBDA acc :
        IF parts = <<>> THEN acc
        ELSE IF Head(parts) = ".."
             THEN Collapse(Tail(parts),
                           IF acc = <<>> THEN <<>> ELSE SubSeq(acc, 1, Len(acc) - 1))
             ELSE Collapse(Tail(parts), Append(acc, Head(parts))))

RECURSIVE Render(_)
Render(components) ==
    Once(components, LAMBDA parts :
        IF parts = <<>> THEN ""
        ELSE "/" \o Head(parts) \o Render(Tail(parts)))

\* Path(s).resolve()
PathResolve(path) ==
    Once(path, LAMBDA s :
        Once(Collapse(IF IsAbsolute(s) THEN Parts(s) ELSE Parts(CWD) \o Parts(s), <<>>),
             LAMBDA parts : IF parts = <<>> THEN "/" ELSE Render(parts)))

\* dir / s
Join(dir, s) == IF IsAbsolute(s) THEN s ELSE dir \o "/" \o s

\* Path(p).parent, for an absolute p
ParentOf(p) ==
    Once(Parts(p), LAMBDA parts :
        IF Len(parts) <= 1 THEN "/" ELSE Render(SubSeq(parts, 1, Len(parts) - 1)))

(***************************************************************************)
(* The schema validator (sweagent/config/schema.py).                       *)
(***************************************************************************)

ALLOWED_BUNDLE_PREFIXES == {"tools/"}
DISALLOWED_BUNDLE_PREFIXES == {"tools/experimental", "tools/fs_write", "tools/system_shell"}
REQUIRED_AGENT_KEYS == <<"tools", "templates">>
REQUIRED_TEMPLATE_KEYS == <<"system_template">>
REQUIRED_HISTORY_PROCESSORS == {"cache_control"}

\* d.get(key, default)
GetOr(d, key, default) == IF HasKey(d, key) THEN Get(d, key) ELSE default

\* the check of one entry of agent.tools.bundles: "" when it passes
BundleError(bundle) ==
    LET path == IF IsMap(bundle) THEN GetOr(bundle, "path", Null) ELSE bundle
    IN IF ~IsStr(path) THEN "tool bundles must include a string path"
       ELSE IF ~\E p \in ALLOWED_BUNDLE_PREFIXES : StartsWith(path.s, p)
            THEN "Bundle path must live under tools/"
            ELSE IF \E p \in DISALLOWED_BUNDLE_PREFIXES : StartsWith(path.s, p)
                 THEN "Bundle path is not permitted in dynamic configs"
                 ELSE ""

\* the loop over history_processors: the required types no processor names.
\* Iterating a value that is no list finds no mapping (or raises), and a
\* processor whose type is a list or a mapping cannot be looked up in the set.
HistoryError(agent) ==
    LET hp == GetOr(agent, "history_processors", List(<<>>))
        types == {GetOr(hp.kids[i], "type", Null) :
                     i \in {j \in 1..Len(hp.kids) : IsMap(hp.kids[j])}}
        found == {ty.s : ty \in {u \in types : IsStr(u)}}
    IN IF ~IsList(hp) THEN "Missing required history processors"
       ELSE IF \E ty \in types : IsList(ty) \/ IsMap(ty) THEN "unhashable type"
            ELSE IF REQUIRED_HISTORY_PROCESSORS \ found # {}
                 THEN "Missing required history processors"
                 ELSE ""

\* validate_config_schema(config): "" when the config passes, or the reason
SchemaError(config) ==
    IF ~HasKey(config, "agent") THEN "Config missing top-level agent section"
    ELSE LET agent == Get(config, "agent") IN
    IF ~IsMap(agent) THEN "agent must be a mapping"
    ELSE IF \E i \in 1..Len(REQUIRED_AGENT_KEYS) : ~HasKey(agent, REQUIRED_AGENT_KEYS[i])
    THEN "agent key is required"
    ELSE LET templates == Get(agent, "templates")
             tools == Get(agent, "tools")
             bundles == GetOr(tools, "bundles", List(<<>>))
         IN
    IF ~IsMap(templates) THEN "agent.templates must be a mapping"
    ELSE IF \E i \in 1..Len(REQUIRED_TEMPLATE_KEYS) :
                \/ ~HasKey(templates, REQUIRED_TEMPLATE_KEYS[i])
                \/ ~IsStr(Get(templates, REQUIRED_TEMPLATE_KEYS[i]))
    THEN "agent.templates key must be provided as text"
    ELSE IF ~IsMap(tools) THEN "agent.tools must be a mapping"
    ELSE IF ~IsList(bundles) THEN "agent.tools.bundles must be a list"
    ELSE IF \E i \in 1..Len(bundles.kids) : BundleError(bundles.kids[i]) # ""
    THEN BundleError(bundles.kids[
             CHOOSE i \in 1..Len(bundles.kids) :
                 /\ BundleError(bundles.kids[i]) # ""
                 /\ \A j \in 1..(i - 1) : BundleError(bundles.kids[j]) = ""])
    ELSE HistoryError(agent)

\* a check of the merged config that leaves the schema out
ValidateConfigNoSchema(config) ==
    IF ~IsMap(config) THEN "MergedNotMapping"
    ELSE IF HasKey(config, "extends") THEN "ExtendsLeaked"
         ELSE ""

\* a check that hands the config to the schema validator twice
SchemaCalledTwice(calls, config) ==
    IF IsMap(config) /\ ~HasKey(config, "extends")
    THEN Append(Append(calls, config), config)
    ELSE calls

\* lines 182-188: validate_config_schema is called, with config, when
\* neither of the two checks before it has raised
SchemaCallsAfter(calls, config) ==
    IF IsMap(config) /\ ~HasKey(config, "extends") THEN Append(calls, config) ELSE calls

\* _validate_config(config): the error kind, "" when the config is accepted
ValidateConfig(config) ==
    IF ~IsMap(config) THEN "MergedNotMapping"
    ELSE IF HasKey(config, "extends") THEN "ExtendsLeaked"
         ELSE IF SchemaError(config) # "" THEN "SchemaError"
              ELSE ""

(***************************************************************************)
(* The document store: the files of the file system and what              *)
(* yaml.safe_load makes of their text.  A file is a tree, or one of        *)
(*   Missing : no file at that location (read_text raises)                 *)
(*   Blank   : a file whose text is empty or white space                   *)
(* A file that holds only `null` or comments parses to Null.               *)
(***************************************************************************)

Missing == [t |-> "missing", s |-> "", keys |-> <<>>, kids |-> <<>>]
Blank == [t |-> "blank", s |-> "", keys |-> <<>>, kids |-> <<>>]

VARIABLES
    store,      \* the file system: canonical location -> file
    entry,      \* the argument of the load in progress
    pc,         \* where the load is: idle, call, resolve, merged, validate, done, failed
    call,       \* the path handed to the _load_with_inheritance call about to start
    stack,      \* the set `stack` of the load in progress
    frames,     \* the active _load_*_with_inheritance calls inside _resolve_extends
    merged,     \* `merged` of load_config / load_from_dict
    result,     \* the tree the load returned
    err,        \* the kind of the error the load raised, "" if none
    errLoc,     \* the location the error message names
    reads,      \* the locations read (path.read_text()), in order
    schemaCalls, \* the trees handed to validate_config_schema, in order
    mpc,        \* a direct call of the merger: ready, lists, item; off during a load
    mBase,      \* its argument `base` (the items of a list)
    mOverride,  \* its argument `override` (the items of a list)
    mItem,      \* the argument of _normalize_list_item
    mOut,       \* what the call returned
    dpc,        \* a direct call of _deep_merge: ready, merged; off otherwise
    dBase,      \* its argument `base`
    dOverride,  \* its argument `override`
    dThird,     \* a third mapping, merged after or before
    dOut,       \* _deep_merge(dBase, dOverride)
    dSwapped,   \* _deep_merge(dOverride, dBase)
    dLeft,      \* _deep_merge(dOut, dThird)
    dRight,     \* _deep_merge(dBase, _deep_merge(dOverride, dThird))
    heap,       \* the objects of a call on objects: heap[a] is the object at address a
    hpc,        \* that call: ready, merged, lists, loaded, raised; off otherwise
    hBase,      \* the address of its argument `base` (or `config`)
    hOverride,  \* the address of its argument `override`
    hOut,       \* the address of the object it returned (0: none)
    hErr,       \* the exception it raised ("": none)
    other,      \* a second load on the same loader, while this one runs: its variables
    rpc,        \* a direct call of _resolve_path: ready, resolved; off otherwise
    rRef,       \* its argument `config_path`
    rAnchor,    \* its argument `relative_to` ("" for None)
    rOut,       \* the path it returned
    cHook,      \* a CompletionDetectorHook: enabled, phrases, _detections
    cStep,      \* the StepOutput handed to it: action, thought
    cpc,        \* the agent around it: generate, generated; off otherwise
    tHook,      \* a ToolErrorDetectorHook: its settings and tracking state
    tStep,      \* the StepOutput handed to it: action, thought, observation
    tpc         \* the agent around it: generate, generated, executed; off otherwise

loaderVars == <<store, entry, pc, call, stack, frames, merged, result, err, errLoc, reads,
               schemaCalls>>
mergerVars == <<mpc, mBase, mOverride, mItem, mOut>>
deepVars == <<dpc, dBase, dOverride, dThird, dOut, dSwapped, dLeft, dRight>>
heapVars == <<heap, hpc, hBase, hOverride, hOut, hErr>>
concVars == <<other>>
pathVars == <<rpc, rRef, rAnchor, rOut>>
completionVars == <<cHook, cStep, cpc>>
detectorVars == <<tHook, tStep, tpc>>
hookVars == <<completionVars, detectorVars>>
directVars == <<mergerVars, deepVars, heapVars, concVars, pathVars, hookVars>>
vars == <<loaderVars, directVars>>

\* no result of a direct call yet
NoResult == [t |-> "none", s |-> "", keys |-> <<>>, kids |-> <<>>]

\* no direct call of _deep_merge is made
DeepOff ==
    /\ dpc = "off"
    /\ dBase = EmptyMap
    /\ dOverride = EmptyMap
    /\ dThird = EmptyMap
    /\ dOut = NoResult
    /\ dSwapped = NoResult
    /\ dLeft = NoResult
    /\ dRight = NoResult

\* no call on objects is made
HeapOff ==
    /\ heap = <<>>
    /\ hpc = "off"
    /\ hBase = 0
    /\ hOverride = 0
    /\ hOut = 0
    /\ hErr = ""

\* no direct call of the list merger is made
MergerOff ==
    /\ mpc = "off"
    /\ mBase = <<>>
    /\ mOverride = <<>>
    /\ mItem = Null
    /\ mOut = [n |-> List(<<>>), a |-> FALSE]

NoEntry == [kind |-> "none", ref |-> "", config |-> Null]

\* no load is started
LoaderIdle ==
    /\ entry = NoEntry
    /\ pc = "idle"
    /\ call = ""
    /\ stack = {}
    /\ frames = <<>>
    /\ merged = EmptyMap
    /\ result = EmptyMap
    /\ err = ""
    /\ errLoc = ""
    /\ reads = <<>>
    /\ schemaCalls = <<>>

\* no hook is installed
HooksOff ==
    /\ cpc = "off"
    /\ cHook = [enabled |-> FALSE, phrases |-> <<>>, detections |-> 0]
    /\ cStep = [action |-> "", thought |-> ""]
    /\ tpc = "off"
    /\ tHook = <<>>
    /\ tStep = [action |-> "", thought |-> "", observation |-> ""]

\* no second load shares the loader
IdleLoad ==
    [entry |-> NoEntry, pc |-> "idle", call |-> "", stack |-> {}, frames |-> <<>>,
     merged |-> EmptyMap, result |-> EmptyMap, err |-> "", errLoc |-> "", reads |-> <<>>]

ConcOff == other = [IdleLoad EXCEPT !.pc = "off"]

\* no direct call of the path resolver is made
PathOff ==
    /\ rpc = "off"
    /\ rRef = ""
    /\ rAnchor = ""
    /\ rOut = ""

\* the file at a canonical location
FileAt(fs, path) == IF path \in DOMAIN fs THEN fs[path] ELSE Missing

\* Path(s): the path as pathlib keeps it, "." and empty components dropped
PathOf(s) ==
    Once(Parts(s), LAMBDA parts :
        IF IsAbsolute(s) THEN (IF parts = <<>> THEN "/" ELSE Render(parts))
        ELSE IF parts = <<>> THEN "."
             ELSE Once(Render(parts), LAMBDA r : SubSeq(r, 2, Len(r))))

\* a file is at the location
IsFile(fs, location) == FileAt(fs, location).t # "missing"

\* the location is a directory: the working or base directory, the root, or
\* a directory that holds a file
IsDir(fs, location) ==
    \/ location \in {"/", CWD, BaseDir}
    \/ \E l \in DOMAIN fs : fs[l].t # "missing" /\ StartsWith(l, location \o "/")

\* the walk of os.stat through the components of a path, from the directory
\* `at`: a component is looked up in the directory reached so far
RECURSIVE Walk(_, _, _)
Walk(fs, parts, at) ==
    IF parts = <<>> THEN TRUE
    ELSE IF Head(parts) = ".."
         THEN Walk(fs, Tail(parts),
                   IF at = <<>> THEN <<>> ELSE SubSeq(at, 1, Len(at) - 1))
         ELSE Once(Append(at, Head(parts)), LAMBDA next :
                IF Tail(parts) = <<>>
                THEN IsFile(fs, Render(next)) \/ IsDir(fs, Render(next))
                ELSE IsDir(fs, Render(next)) /\ Walk(fs, Tail(parts), next))

\* Path(p).exists(), for an absolute p
Exists(fs, p) == Walk(fs, Parts(p), <<>>)

\* a resolver that looks in the base directory before the working directory
ResolvePathBaseFirst(fs, config_path, anchor) ==
    Once(PathOf(config_path), LAMBDA candidate :
        IF IsAbsolute(candidate) THEN candidate
        ELSE IF anchor # "" THEN PathResolve(Join(ParentOf(anchor), candidate))
        ELSE IF Exists(fs, Join(BaseDir, candidate))
             THEN PathResolve(Join(BaseDir, candidate))
             ELSE PathResolve(Join(CWD, candidate)))

\* _resolve_path(config_path, relative_to=anchor); anchor "" stands for None
ResolvePath(fs, config_path, anchor) ==
    Once(PathOf(config_path), LAMBDA candidate :
        IF IsAbsolute(candidate) THEN candidate
        ELSE IF anchor # "" THEN PathResolve(Join(ParentOf(anchor), candidate))
        ELSE IF Exists(fs, Join(CWD, candidate)) THEN PathResolve(Join(CWD, candidate))
        ELSE IF Exists(fs, Join(BaseDir, candidate))
             THEN PathResolve(Join(BaseDir, candidate))
             ELSE PathResolve(candidate))

\* a read that takes a missing file for an empty document
LoadYamlLenient(fs, path) ==
    LET f == FileAt(fs, path)
    IN IF f.t \in {"missing", "blank", "null"} THEN [err |-> "", data |-> EmptyMap]
       ELSE IF ~IsMap(f) THEN [err |-> "NotAMapping", data |-> EmptyMap]
       ELSE [err |-> "", data |-> f]

\* _load_yaml(path): [err |-> error kind or "", data |-> the mapping]
LoadYaml(fs, path) ==
    LET f == FileAt(fs, path)
    IN IF f.t = "missing" THEN [err |-> "NotFound", data |-> EmptyMap]
       ELSE IF f.t = "blank" THEN [err |-> "", data |-> EmptyMap]
       ELSE IF f.t = "null" THEN [err |-> "", data |-> EmptyMap]
       ELSE IF ~IsMap(f) THEN [err |-> "NotAMapping", data |-> EmptyMap]
       ELSE [err |-> "", data |-> f]

(***************************************************************************)
(* The inheritance resolver.  The recursion of _load_with_inheritance      *)
(* through _resolve_extends is a sequence of frames, the innermost last;   *)
(* a frame holds the locals of one call that is inside _resolve_extends:   *)
(*   path        normalized_path                                           *)
(*   local       local_config                                              *)
(*   todo        the entries of extends_list not yet resolved              *)
(*   resolved    resolved_configs                                          *)
(*   merged_base, merged   set by lines 52-55                              *)
(***************************************************************************)

\* the depth of recursion the model explores (no load of the store below
\* nests deeper than its five locations)
MaxDepth == 8

SentinelPath == PathResolve(Join(BaseDir, "__generated__.yaml"))

\* a loader without the check of line 38
CycleNeverDetected(normalized_path, stk) == FALSE

\* line 38 / 66: normalized_path in stack
CycleDetected(normalized_path, stk) == normalized_path \in stk

\* a loader that returns without unwinding the stack
StackKept(stk, normalized_path) == stk

\* a return that empties the stack
StackCleared(stk, normalized_path) == {}

\* lines 48, 56 / 75, 83: stack.remove(normalized_path)
StackRemove(stk, normalized_path) == stk \ {normalized_path}

\* a loader that reads `extends` without removing it (get for pop)
ExtendsNotPopped(config) == config

\* lines 44-45 / 71-72: local_config after pop("extends", None)
PopExtends(config) == DelKey(config, "extends")

\* lines 45 / 72: extends_value; Null is Python's None, also for an absent key
ExtendsValue(config) == GetOr(config, "extends", Null)

\* a fold that merges the parents last to first, so that the first one wins
RECURSIVE FoldParentsReversed(_, _)
FoldParentsReversed(merged_base, base_configs) ==
    IF base_configs = <<>> THEN merged_base
    ELSE DeepMerge(FoldParentsReversed(merged_base, Tail(base_configs)), Head(base_configs))

\* lines 52-54 / 79-81: the fold of base_configs into merged_base
RECURSIVE FoldParents(_, _)
FoldParents(merged_base, base_configs) ==
    IF base_configs = <<>> THEN merged_base
    ELSE Once(DeepMerge(merged_base, Head(base_configs)),
              LAMBDA m : FoldParents(m, Tail(base_configs)))

\* a merge with its arguments exchanged: the parents win over the document
MergeLocalUnder(merged_base, local_config) == DeepMerge(local_config, merged_base)

\* line 55 / 82: merged
MergeLocal(merged_base, local_config) == DeepMerge(merged_base, local_config)

\* the next values of the load's variables, as one record
Outcome(p, stk, frs, m, e, loc) ==
    [pc |-> p, stack |-> stk, frames |-> frs, merged |-> m, err |-> e, errLoc |-> loc]

\* raise: the exception leaves every call; the stack is not unwound
Raise(kind, loc, stk, frs) == Outcome("failed", stk, frs, merged, kind, loc)

\* `return value` of a _load_*_with_inheritance call, to the caller's loop
\* (line 103) or to load_config / load_from_dict (lines 22, 32)
ReturnTo(frs, stk, value) ==
    IF frs = <<>> THEN Outcome("validate", stk, frs, value, "", "")
    ELSE Outcome("resolve", stk,
                 [frs EXCEPT ![Len(frs)].resolved = Append(@, value)],
                 merged, "", "")

NewFrame(path, local, todo) ==
    [path |-> path, local |-> local, todo |-> todo, resolved |-> <<>>,
     merged_base |-> EmptyMap, merged |-> EmptyMap]

\* lines 44-51 and 89-97 (71-78 for a generated config): the call has read
\* its document and is in the stack
Resolve(normalized_path, config, stk, frs) ==
    Once(<<PopExtends(config), ExtendsValue(config)>>, LAMBDA v :
    LET local_config == v[1]
        extends_value == v[2]
    IN IF extends_value.t = "null"
       THEN ReturnTo(frs, StackRemove(stk, normalized_path), local_config)
       ELSE IF IsStr(extends_value)
            THEN Outcome("resolve", stk,
                         Append(frs, NewFrame(normalized_path, local_config, <<extends_value>>)),
                         merged, "", "")
            ELSE IF IsList(extends_value)
                 THEN Outcome("resolve", stk,
                              Append(frs, NewFrame(normalized_path, local_config, extends_value.kids)),
                              merged, "", "")
                 ELSE Raise("InvalidExtendsValue", normalized_path, stk, frs))

\* _load_with_inheritance(path, stack) up to its first recursive call
LoadWithInheritanceOutcome(fs, path, stk, frs) ==
    Once(PathResolve(path), LAMBDA normalized_path :
        IF CycleDetected(normalized_path, stk)
        THEN Raise("CircularInheritance", normalized_path, stk, frs)
        ELSE Once(LoadYaml(fs, normalized_path), LAMBDA y :
                IF y.err # ""
                THEN Raise(y.err, normalized_path, stk \cup {normalized_path}, frs)
                ELSE Resolve(normalized_path, y.data, stk \cup {normalized_path}, frs)))

\* a load of a generated config that reads its location instead of the config
LoadDictFromDisk(config, current_path, stk, frs) ==
    LoadWithInheritanceOutcome(store, current_path, stk, frs)

\* a load of a generated config that leaves its location out of the stack
LoadDictUnstacked(config, current_path, stk, frs) ==
    Resolve(PathResolve(current_path), config, stk, frs)

\* _load_dict_with_inheritance(config, current_path, stack) up to its first
\* recursive call
LoadDictWithInheritanceOutcome(config, current_path, stk, frs) ==
    Once(PathResolve(current_path), LAMBDA normalized_path :
        IF CycleDetected(normalized_path, stk)
        THEN Raise("CircularInheritance", normalized_path, stk, frs)
        ELSE Resolve(normalized_path, config, stk \cup {normalized_path}, frs))

\* the load's variables take the values of an outcome (computed once)
Apply(outcome) ==
    \E o \in {outcome} :
        /\ pc' = o.pc
        /\ stack' = o.stack
        /\ frames' = o.frames
        /\ merged' = o.merged
        /\ err' = o.err
        /\ errLoc' = o.errLoc

\* load_config(config_path), lines 21-22 up to the call of line 22
LoadConfig(config_path) ==
    /\ pc = "idle"
    /\ entry' = [kind |-> "file", ref |-> config_path, config |-> Null]
    /\ call' = ResolvePath(store, config_path, "")
    /\ pc' = "call"
    /\ UNCHANGED <<store, stack, frames, merged, result, err, errLoc, reads, schemaCalls, directVars>>

\* load_from_dict(config), lines 28-32 and the called
\* _load_dict_with_inheritance up to its first recursive call
LoadFromDict(config) ==
    /\ pc = "idle"
    /\ entry' = [kind |-> "dict", ref |-> "", config |-> config]
    /\ IF ~IsMap(config)
       THEN Apply(Raise("InvalidInput", "", stack, frames))
       ELSE Apply(LoadDictWithInheritanceOutcome(config, SentinelPath, {}, <<>>))
    /\ UNCHANGED <<store, call, result, reads, schemaCalls, directVars>>

\* a call of _load_with_inheritance starts: lines 37-51, and the head of
\* _resolve_extends (89-97) when the document extends others
LoadWithInheritance ==
    /\ pc = "call"
    /\ Len(frames) < MaxDepth
    /\ Apply(LoadWithInheritanceOutcome(store, call, stack, frames))
    /\ reads' = IF CycleDetected(PathResolve(call), stack) THEN reads
                ELSE Append(reads, PathResolve(call))
    /\ UNCHANGED <<store, entry, call, result, schemaCalls, directVars>>

\* one turn of the loop of _resolve_extends, lines 98-103, up to the call
ResolveExtends ==
    /\ pc = "resolve"
    /\ frames # <<>>
    /\ LET top == frames[Len(frames)] IN
       /\ top.todo # <<>>
       /\ LET entry_ref == Head(top.todo) IN
          IF ~IsStr(entry_ref)
          THEN /\ Apply(Raise("InvalidExtendsValue", top.path, stack, frames))
               /\ UNCHANGED call
          ELSE /\ call' = ResolvePath(store, entry_ref.s, top.path)
               /\ pc' = "call"
               /\ frames' = [frames EXCEPT ![Len(frames)].todo = Tail(@)]
               /\ UNCHANGED <<stack, merged, err, errLoc>>
    /\ UNCHANGED <<store, entry, result, reads, schemaCalls, directVars>>

\* _resolve_extends returned (line 104): lines 52-55 / 79-82
MergeParents ==
    /\ pc = "resolve"
    /\ frames # <<>>
    /\ frames[Len(frames)].todo = <<>>
    /\ \E merged_base \in {FoldParents(EmptyMap, frames[Len(frames)].resolved)} :
          frames' = [frames EXCEPT
                        ![Len(frames)].merged_base = merged_base,
                        ![Len(frames)].merged =
                            MergeLocal(merged_base, frames[Len(frames)].local)]
    /\ pc' = "merged"
    /\ UNCHANGED <<store, entry, call, stack, merged, result, err, errLoc, reads, schemaCalls, directVars>>

\* lines 56-57 / 83-84: stack.remove(normalized_path); return merged
Return ==
    /\ pc = "merged"
    /\ LET top == frames[Len(frames)]
       IN Apply(ReturnTo(SubSeq(frames, 1, Len(frames) - 1),
                         StackRemove(stack, top.path), top.merged))
    /\ UNCHANGED <<store, entry, call, result, reads, schemaCalls, directVars>>

\* lines 23-24 / 33-34: _validate_config(merged); return merged
Validate ==
    /\ pc = "validate"
    /\ IF ValidateConfig(merged) # ""
       THEN /\ pc' = "failed"
            /\ err' = ValidateConfig(merged)
            /\ UNCHANGED result
       ELSE /\ pc' = "done"
            /\ result' = merged
            /\ UNCHANGED err
    /\ schemaCalls' = SchemaCallsAfter(schemaCalls, merged)
    /\ UNCHANGED <<store, entry, call, stack, frames, merged, errLoc, reads, directVars>>

(***************************************************************************)
(* The documents of the model: four files of the base directory and the    *)
(* trees they may hold.                                                    *)
(***************************************************************************)

\* the longest `extends` list of the entry document
MaxExtends == 2

FileNames == {"a", "b", "c", "d"}
LocOf(name) == BaseDir \o "/" \o name
FileLocs == {LocOf(n) : n \in FileNames}

\* an `agent` section that passes the schema
AgentSection(name) ==
    Map(<<"tools", "templates", "history_processors">>,
        << Map(<<"bundles">>, <<List(<<Map(<<"path">>, <<Str("tools/" \o name)>>)>>)>>),
           Map(<<"system_template">>, <<Str(name)>>),
           List(<<Map(<<"type">>, <<Str("cache_control")>>)>>) >>)

\* the bodies a file may have (its tree, less `extends`)
Body(name, variant) ==
    CASE variant = 1 ->
           Map(<<"agent", "settings">>,
               <<AgentSection(name),
                 Map(<<"prompt", "steps">>, <<Str(name), List(<<Str(name)>>)>>)>>)
      [] variant = 2 ->
           Map(<<"settings">>, <<Map(<<"steps">>, <<List(<<Str("+" \o name)>>)>>)>>)
      [] variant = 3 ->
           Map(<<"agent", "settings", "only_" \o name>>,
               <<AgentSection(name), Map(<<"prompt">>, <<Str(name)>>), Str(name)>>)
      [] variant = 4 ->
           Map(<<"agent", "settings">>,
               <<AgentSection(name),
                 Map(<<"steps">>, <<List(<<Map(<<"+run">>, <<Str(name)>>), Str("++" \o name)>>)>>)>>)
      [] OTHER ->
           Map(<<"agent", "settings">>,
               <<AgentSection(name), Map(<<"steps">>, <<Str(name)>>)>>)

Variants == 1..5

\* a document: body plus `extends: ext`; NoExtends leaves the key out
NoExtends == [t |-> "absent", s |-> "", keys |-> <<>>, kids |-> <<>>]
WithExtends(ext, body) ==
    IF ext.t = "absent" THEN body
    ELSE Map(<<"extends">> \o body.keys, <<ext>> \o body.kids)

RECURSIVE SeqsUpTo(_, _)
SeqsUpTo(S, n) ==
    IF n = 0 THEN {<<>>}
    ELSE LET shorter == SeqsUpTo(S, n - 1)
         IN shorter \cup {Append(q, e) : q \in {r \in shorter : Len(r) = n - 1}, e \in S}

ParentRefs == {Str(n) : n \in FileNames}

\* what `extends` may be in the entry document /cfg/a
EntryExtends ==
    {NoExtends, Null, Num("5"), List(<<Num("5")>>), Str("nope"), Str("../cfg/./b")}
        \cup ParentRefs
        \cup {List(q) : q \in SeqsUpTo(ParentRefs, MaxExtends)}

\* what the other files may be: a document with at most one parent, or no file
ParentFiles(name, parents) ==
    {WithExtends(e, Body(name, 1)) : e \in {NoExtends} \cup {Str(n) : n \in parents}}

\* every extends graph over the four files, with the bodies fixed
GraphStores ==
    {[l \in FileLocs |->
        CASE l = LocOf("a") -> WithExtends(ea, Body("a", 1))
          [] l = LocOf("b") -> fb
          [] l = LocOf("c") -> fc
          [] OTHER -> fd] :
      ea \in EntryExtends,
      fb \in ParentFiles("b", {"a", "b", "c", "d"}) \cup {Missing},
      fc \in ParentFiles("c", {"a", "d"}),
      fd \in ParentFiles("d", {"b"}) \cup {Missing}}

\* the graphs whose bodies vary: a chain, two parents, a diamond
Shapes ==
    { [a |-> Str("b"), b |-> Str("c"), c |-> NoExtends, d |-> NoExtends],
      [a |-> List(<<Str("b"), Str("c")>>), b |-> NoExtends, c |-> NoExtends, d |-> NoExtends],
      [a |-> List(<<Str("b"), Str("c")>>), b |-> Str("d"), c |-> Str("d"), d |-> NoExtends],
      [a |-> List(<<>>), b |-> NoExtends, c |-> NoExtends, d |-> NoExtends] }

ContentStores ==
    {[l \in FileLocs |->
        CASE l = LocOf("a") -> WithExtends(sh.a, Body("a", va))
          [] l = LocOf("b") -> WithExtends(sh.b, Body("b", vb))
          [] l = LocOf("c") -> WithExtends(sh.c, Body("c", vc))
          [] OTHER -> WithExtends(sh.d, Body("d", 1))] :
      sh \in Shapes, va \in Variants, vb \in Variants, vc \in Variants}

\* files that are no documents
OddStores ==
    {[l \in FileLocs |->
        CASE l = LocOf("a") -> fa
          [] l = LocOf("b") -> fb
          [] OTHER -> Body("c", 1)] :
      fa \in {Blank, Null, List(<<Str("x")>>), WithExtends(Str("b"), Body("a", 2)),
               WithExtends(Str("__generated__.yaml"), Body("a", 1))},
      fb \in {Blank, Null, Str("text"), Body("b", 1)}}

\* `agent` sections that the schema accepts or rejects, one way each
AgentSections ==
    LET tools(bundles) == Map(<<"bundles">>, <<List(bundles)>>)
        templates == Map(<<"system_template">>, <<Str("t")>>)
        history == List(<<Map(<<"type">>, <<Str("cache_control")>>)>>)
        agent(t, tp, h) == Map(<<"tools", "templates", "history_processors">>, <<t, tp, h>>)
    IN { agent(tools(<<Str("tools/x"), Map(<<"path", "extra">>, <<Str("tools/y"), Null>>)>>),
               templates,
               List(<<Str("plain"), Map(<<"type">>, <<Str("other")>>),
                      Map(<<"type">>, <<Str("cache_control")>>)>>)),
         agent(tools(<<Str("tools/experimental/x")>>), templates, history),
         agent(tools(<<Map(<<"path">>, <<Str("tools/fs_write")>>)>>), templates, history),
         agent(tools(<<Str("other/x")>>), templates, history),
         agent(tools(<<Map(<<"name">>, <<Str("tools/x")>>)>>), templates, history),
         agent(tools(<<Num("5")>>), templates, history),
         agent(tools(<<>>), Map(<<"system_template">>, <<Num("5")>>), history),
         agent(tools(<<>>), Map(<<"other">>, <<Str("t")>>), history),
         agent(tools(<<>>), Str("t"), history),
         agent(tools(<<>>), templates, List(<<Map(<<"type">>, <<Str("other")>>)>>)),
         agent(tools(<<>>), templates, List(<<Map(<<"type">>, <<List(<<>>)>>)>>)),
         agent(tools(<<>>), templates, Str("cache_control")),
         agent(Str("tools/x"), templates, history),
         agent(Map(<<"bundles">>, <<Str("tools/x")>>), templates, history),
         agent(EmptyMap, templates, history),
         Map(<<"tools", "templates">>, <<tools(<<>>), templates>>),
         Map(<<"tools", "history_processors">>, <<tools(<<>>), history>>),
         Map(<<"templates", "history_processors">>, <<templates, history>>),
         Str("agent") }

\* stores whose entry document has one of these sections and extends nothing
SchemaStores ==
    {[l \in FileLocs |->
        IF l = LocOf("a") THEN Map(<<"agent">>, <<section>>) ELSE Body("b", 1)] :
      section \in AgentSections}

Stores == GraphStores \cup ContentStores \cup OddStores \cup SchemaStores

\* the arguments of load_config
EntryRefs == {"a", "/cfg/b", "nope"}

\* the arguments of load_from_dict
DictConfigs ==
    { Body("g", 1),
      Body("g", 4),
      WithExtends(Str("a"), Body("g", 2)),
      WithExtends(Str("__generated__.yaml"), Body("g", 1)),
      List(<<Str("x")>>),
      Null }

Init ==
    /\ store \in Stores
    /\ LoaderIdle
    /\ HooksOff
    /\ ConcOff
    /\ PathOff
    /\ MergerOff
    /\ DeepOff
    /\ HeapOff

Next ==
    \/ \E config_path \in EntryRefs : LoadConfig(config_path)
    \/ \E config \in DictConfigs : LoadFromDict(config)
    \/ LoadWithInheritance
    \/ ResolveExtends
    \/ MergeParents
    \/ Return
    \/ Validate

Spec == Init /\ [][Next]_vars

\* The loads whose termination is checked: every graph in which each of the
\* four files extends nothing or one file, and the entry file extends up to
\* MaxExtends of them.
TermStores ==
    {[l \in FileLocs |->
        CASE l = LocOf("a") -> WithExtends(ea, Body("a", 2))
          [] l = LocOf("b") -> WithExtends(eb, Body("b", 2))
          [] l = LocOf("c") -> WithExtends(ec, Body("c", 2))
          [] OTHER -> WithExtends(ed, Body("d", 1))] :
      ea \in {List(q) : q \in SeqsUpTo({Str("a"), Str("b"), Str("c")}, MaxExtends)},
      eb \in {NoExtends, Str("a"), Str("c"), Str("d")},
      ec \in {NoExtends, Str("b"), Str("d")},
      ed \in {NoExtends, Str("b")}}

TermInit ==
    /\ store \in TermStores
    /\ LoaderIdle
    /\ HooksOff
    /\ ConcOff
    /\ PathOff
    /\ MergerOff
    /\ DeepOff
    /\ HeapOff

\* a load is one sequential computation: it runs until it returns or raises
FairSpec == TermInit /\ [][Next]_vars /\ WF_vars(Next)

(***************************************************************************)
(* The merger called directly: _merge_lists and _normalize_list_item on    *)
(* every pair of lists over a small universe of items.                     *)
(***************************************************************************)

\* the longest override list
MaxLen == 2

\* the items of an override list: plain and prefixed strings, a number,
\* null, a nested list, mappings with and without prefixed keys, and
\* mappings two of whose keys differ only by the prefix
OverrideItems ==
    { Str("x"), Str("+y"), Str("++z"), Str("+"), Num("1"), Null,
      List(<<Str("+n")>>),
      Map(<<"path">>, <<Str("p")>>),
      Map(<<"+path">>, <<Str("q")>>),
      Map(<<"+a", "b">>, <<Num("1"), Num("2")>>),
      Map(<<"+a", "a">>, <<Num("1"), Num("2")>>),
      Map(<<"a", "+a">>, <<Num("1"), Num("2")>>) }

BaseLists ==
    { <<>>, <<Str("a")>>, <<Str("+a"), Map(<<"path">>, <<Str("b")>>)>> }

MergerInit ==
    /\ mpc = "ready"
    /\ mBase \in BaseLists
    /\ mOverride \in SeqsUpTo(OverrideItems, MaxLen)
    /\ mItem = Null
    /\ mOut = [n |-> List(<<>>), a |-> FALSE]
    /\ store = [l \in FileLocs |-> Missing]
    /\ LoaderIdle
    /\ HooksOff
    /\ ConcOff
    /\ PathOff
    /\ DeepOff
    /\ HeapOff

\* _merge_lists(mBase, mOverride)
CallMergeLists ==
    /\ mpc = "ready"
    /\ mOut' = [n |-> List(MergeLists(mBase, mOverride)), a |-> FALSE]
    /\ mpc' = "lists"
    /\ UNCHANGED <<mBase, mOverride, mItem, loaderVars, concVars, pathVars, hookVars, deepVars, heapVars>>

\* _normalize_list_item(item), for an item of mOverride
CallNormalizeListItem ==
    /\ mpc = "ready"
    /\ \E i \in 1..Len(mOverride) :
          /\ mItem' = mOverride[i]
          /\ mOut' = NormalizeListItem(mOverride[i])
    /\ mpc' = "item"
    /\ UNCHANGED <<mBase, mOverride, loaderVars, concVars, pathVars, hookVars, deepVars, heapVars>>

MergerNext ==
    \/ CallMergeLists
    \/ CallNormalizeListItem

MergerSpec == MergerInit /\ [][MergerNext]_vars

(***************************************************************************)
(* _deep_merge called directly on the mappings of a small universe, and    *)
(* called again on its result.                                             *)
(***************************************************************************)

\* mappings of scalars, mappings and lists over the keys k and j
MergeTrees ==
    { EmptyMap,
      Map(<<"k">>, <<Num("1")>>),
      Map(<<"k">>, <<Num("2")>>),
      Map(<<"j">>, <<Str("s")>>),
      Map(<<"k">>, <<Map(<<"x">>, <<Num("1")>>)>>),
      Map(<<"k", "j">>, <<Map(<<"y">>, <<Num("2")>>), Num("1")>>),
      Map(<<"k">>, <<Map(<<"x">>, <<Num("2")>>)>>),
      Map(<<"j", "k">>, <<Null, Map(<<"x">>, <<Map(<<"z">>, <<Num("1")>>)>>)>>),
      Map(<<"k">>, <<Map(<<"x", "y">>, <<Map(<<"z">>, <<Num("3")>>), Num("1")>>)>>),
      Map(<<"k">>, <<List(<<Str("a")>>)>>),
      Map(<<"k", "j">>, <<List(<<Str("+b")>>), Map(<<"x">>, <<List(<<Str("c")>>)>>)>>) }

DeepInit ==
    /\ dpc = "ready"
    /\ dBase \in MergeTrees
    /\ dOverride \in MergeTrees
    /\ dThird \in MergeTrees
    /\ dOut = NoResult
    /\ dSwapped = NoResult
    /\ dLeft = NoResult
    /\ dRight = NoResult
    /\ store = [l \in FileLocs |-> Missing]
    /\ LoaderIdle
    /\ HooksOff
    /\ ConcOff
    /\ PathOff
    /\ MergerOff
    /\ HeapOff

\* _deep_merge(dBase, dOverride)
CallDeepMerge ==
    /\ dpc = "ready"
    /\ dOut' = DeepMerge(dBase, dOverride)
    /\ dpc' = "merged"
    /\ UNCHANGED <<dBase, dOverride, dThird, dSwapped, dLeft, dRight, loaderVars, concVars, pathVars, hookVars, mergerVars, heapVars>>

\* _deep_merge(dOverride, dBase)
CallDeepMergeSwapped ==
    /\ dpc = "merged"
    /\ dSwapped = NoResult
    /\ dSwapped' = DeepMerge(dOverride, dBase)
    /\ UNCHANGED <<dpc, dBase, dOverride, dThird, dOut, dLeft, dRight, loaderVars, concVars, pathVars, hookVars, mergerVars, heapVars>>

\* _deep_merge(_deep_merge(dBase, dOverride), dThird)
CallDeepMergeLeft ==
    /\ dpc = "merged"
    /\ dLeft = NoResult
    /\ dLeft' = DeepMerge(dOut, dThird)
    /\ UNCHANGED <<dpc, dBase, dOverride, dThird, dOut, dSwapped, dRight, loaderVars, concVars, pathVars, hookVars, mergerVars, heapVars>>

\* _deep_merge(dBase, _deep_merge(dOverride, dThird))
CallDeepMergeRight ==
    /\ dpc = "merged"
    /\ dRight = NoResult
    /\ dRight' = DeepMerge(dBase, DeepMerge(dOverride, dThird))
    /\ UNCHANGED <<dpc, dBase, dOverride, dThird, dOut, dSwapped, dLeft, loaderVars, concVars, pathVars, hookVars, mergerVars, heapVars>>

DeepNext ==
    \/ CallDeepMerge
    \/ CallDeepMergeSwapped
    \/ CallDeepMergeLeft
    \/ CallDeepMergeRight

DeepMergeSpec == DeepInit /\ [][DeepNext]_vars

(***************************************************************************)
(* The merger on objects.  Python passes references: a dict or a list is   *)
(* an object of the heap, its kids are the addresses of its values, and    *)
(* an assignment stores an address, not a copy.  A str, a number and None  *)
(* are immutable objects.  Each operator below takes the heap and returns  *)
(* the heap after it, with the address of what it returned.                *)
(***************************************************************************)

\* a new object
Alloc(h, obj) == [h |-> Append(h, obj), a |-> Len(h) + 1]

IsImmutable(obj) == obj.t \in {"str", "num", "null"}

\* the tree parsed or built by the caller, as objects: [h, a]
RECURSIVE StoreTree(_, _)
RECURSIVE StoreAll(_, _, _)
StoreAll(h, trees, done) ==
    IF trees = <<>> THEN [h |-> h, as |-> done]
    ELSE LET c == StoreTree(h, Head(trees))
         IN StoreAll(c.h, Tail(trees), Append(done, c.a))

StoreTree(h, tree) ==
    LET c == StoreAll(h, tree.kids, <<>>)
    IN Alloc(c.h, [tree EXCEPT !.kids = c.as])

\* the tree that the object at address a holds
RECURSIVE ValueAt(_, _)
ValueAt(h, a) == [h[a] EXCEPT !.kids = [i \in 1..Len(h[a].kids) |-> ValueAt(h, h[a].kids[i])]]

\* an assignment for a copy: merged = base
NoCopy(h, a) == [h |-> h, a |-> a]

\* copy.deepcopy(x): [h, a]; an immutable object is its own copy
RECURSIVE DeepCopy(_, _)
RECURSIVE CopyAll(_, _, _)
CopyAll(h, addrs, done) ==
    IF addrs = <<>> THEN [h |-> h, as |-> done]
    ELSE LET c == DeepCopy(h, Head(addrs))
         IN CopyAll(c.h, Tail(addrs), Append(done, c.a))

DeepCopy(h, a) ==
    IF IsImmutable(h[a]) THEN [h |-> h, a |-> a]
    ELSE LET c == CopyAll(h, h[a].kids, <<>>)
         IN Alloc(c.h, [h[a] EXCEPT !.kids = c.as])

\* _normalize_list_item(item) on objects: [h, a, app]; item[1:] and
\* `normalized` are new objects, and normalized[key] = value stores the
\* address of the item's value
NormalizeListItemAt(h, item) ==
    IF IsStr(h[item]) /\ StartsWith(h[item].s, "+")
    THEN LET n == Alloc(h, Str(DropFirst(h[item].s)))
         IN [h |-> n.h, a |-> n.a, app |-> TRUE]
    ELSE IF IsMap(h[item])
         THEN LET r == NormalizeKeys(h[item], 1, [n |-> EmptyMap, a |-> FALSE])
                  n == Alloc(h, r.n)
              IN [h |-> n.h, a |-> n.a, app |-> r.a]
         ELSE [h |-> h, a |-> item, app |-> FALSE]

\* the loop of _merge_lists, lines 152-157: [h, replacements, append_items]
RECURSIVE ClassifyAt(_, _, _, _)
ClassifyAt(h, items, replacements, append_items) ==
    IF items = <<>>
    THEN [h |-> h, replacements |-> replacements, append_items |-> append_items]
    ELSE LET r == NormalizeListItemAt(h, Head(items))
         IN IF r.app
            THEN ClassifyAt(r.h, Tail(items), replacements, Append(append_items, r.a))
            ELSE ClassifyAt(r.h, Tail(items), Append(replacements, r.a), append_items)

\* _merge_lists(base, override) on objects: [h, a]
MergeListsAt(h, base, override) ==
    LET base_copy == DeepCopy(h, base)
        c == ClassifyAt(base_copy.h, h[override].kids, <<>>, <<>>)
    IN IF c.replacements # <<>>
       THEN Alloc(c.h, List(c.replacements \o c.append_items))
       ELSE [h |-> [c.h EXCEPT ![base_copy.a].kids = @ \o c.append_items],
             a |-> base_copy.a]

\* _deep_merge(base, override) on objects: [h, a]
RECURSIVE DeepMergeAt(_, _, _)
\* merged[key] = ... for one pair of override: the heap after it
MergeKeyAt(h, m, key, value) ==
    IF ~HasKey(h[m], key)
    THEN LET c == DeepCopy(h, value)
         IN [c.h EXCEPT ![m] = SetKey(@, key, c.a)]
    ELSE LET cur == Get(h[m], key)
         IN IF IsMap(h[cur]) /\ IsMap(h[value])
            THEN LET r == DeepMergeAt(h, cur, value)
                 IN [r.h EXCEPT ![m] = SetKey(@, key, r.a)]
            ELSE IF IsList(h[cur]) /\ IsList(h[value])
                 THEN LET r == MergeListsAt(h, cur, value)
                      IN [r.h EXCEPT ![m] = SetKey(@, key, r.a)]
                 ELSE LET c == DeepCopy(h, value)
                      IN [c.h EXCEPT ![m] = SetKey(@, key, c.a)]

RECURSIVE MergeFromAt(_, _, _, _)
MergeFromAt(h, m, override, i) ==
    IF i > Len(h[override].keys) THEN [h |-> h, a |-> m]
    ELSE MergeFromAt(MergeKeyAt(h, m, h[override].keys[i], h[override].kids[i]),
                     m, override, i + 1)

\* m is `merged`, line 134
DeepMergeAt(h, base, override) ==
    LET m == DeepCopy(h, base)
    IN MergeFromAt(m.h, m.a, override, 1)

\* a call of _deep_merge(base, override) by any caller: [h, a, err].
\* Line 134 copies base whatever it is; override.items() (135) raises for
\* an override that is no mapping; `key not in merged` and merged[key]
\* (136-144) raise for a base that is none, once the loop has a key
DeepMergeCallAt(h, base, override) ==
    LET m == DeepCopy(h, base)
    IN IF ~IsMap(h[override]) THEN [h |-> m.h, a |-> 0, err |-> "AttributeError"]
       ELSE IF IsMap(h[base])
            THEN LET r == MergeFromAt(m.h, m.a, override, 1)
                 IN [h |-> r.h, a |-> r.a, err |-> ""]
            ELSE IF h[override].keys = <<>> THEN [h |-> m.h, a |-> m.a, err |-> ""]
                 ELSE [h |-> m.h, a |-> 0, err |-> "TypeError"]

\* lines 71-72: local_config = deepcopy(config); local_config.pop("extends", None)
CopyAndPopAt(h, config) ==
    LET local_config == DeepCopy(h, config)
    IN [h |-> [local_config.h EXCEPT ![local_config.a] = DelKey(@, "extends")],
        a |-> local_config.a]

\* the trees a caller holds: mappings with nested mappings and lists, with
\* and without `extends`, and lists of plain and append items
HeapTrees ==
    { Map(<<"k">>, <<Num("1")>>),
      Map(<<"extends", "k">>, <<Str("a"), Map(<<"x">>, <<List(<<Str("a")>>)>>)>>),
      Map(<<"k", "j">>, <<Map(<<"x", "y">>, <<List(<<Str("+b")>>), Num("2")>>), Str("s")>>),
      Map(<<"extends", "j", "k">>,
          <<List(<<Str("a"), Str("b")>>), Num("1"), List(<<Map(<<"p">>, <<Str("q")>>)>>)>>),
      Map(<<"k">>, <<List(<<Map(<<"+p">>, <<List(<<Str("r")>>)>>), List(<<Str("+n")>>)>>)>>),
      Map(<<"k", "j">>, <<List(<<Str("+c"), Str("d")>>), Map(<<"z">>, <<EmptyMap>>)>>),
      List(<<Str("a"), Map(<<"p">>, <<Str("q")>>)>>),
      List(<<Str("+b"), Map(<<"+p">>, <<Map(<<"x">>, <<Num("1")>>)>>)>>),
      List(<<List(<<Str("n")>>), Str("c")>>),
      List(<<>>),
      EmptyMap,
      Str("text") }

HeapInit ==
    /\ \E base \in HeapTrees, override \in HeapTrees :
          LET b == StoreTree(<<>>, base)
              o == StoreTree(b.h, override)
          IN /\ heap = o.h
             /\ hBase = b.a
             /\ hOverride = o.a
    /\ hpc = "ready"
    /\ hOut = 0
    /\ hErr = ""
    /\ store = [l \in FileLocs |-> Missing]
    /\ LoaderIdle
    /\ HooksOff
    /\ ConcOff
    /\ PathOff
    /\ MergerOff
    /\ DeepOff

\* _deep_merge(base, override), on mappings or not
HeapDeepMerge ==
    /\ hpc = "ready"
    /\ \E r \in {DeepMergeCallAt(heap, hBase, hOverride)} :
          /\ heap' = r.h
          /\ hOut' = r.a
          /\ hErr' = r.err
          /\ hpc' = IF r.err = "" THEN "merged" ELSE "merge raised"
    /\ UNCHANGED <<hBase, hOverride, loaderVars, concVars, pathVars, hookVars, mergerVars, deepVars>>

\* _merge_lists(base, override) on two lists
HeapMergeLists ==
    /\ hpc = "ready"
    /\ IsList(heap[hBase]) /\ IsList(heap[hOverride])
    /\ \E r \in {MergeListsAt(heap, hBase, hOverride)} :
          /\ heap' = r.h
          /\ hOut' = r.a
    /\ hpc' = "lists"
    /\ hErr' = ""
    /\ UNCHANGED <<hBase, hOverride, loaderVars, concVars, pathVars, hookVars, mergerVars, deepVars>>

\* load_from_dict(config), lines 28-30 and 71-72: the only lines that hold
\* the caller's mapping
HeapLoadFromDict ==
    /\ hpc = "ready"
    /\ IF ~IsMap(heap[hBase])
       THEN /\ hpc' = "raised"
            /\ hErr' = "InvalidInput"
            /\ UNCHANGED <<heap, hOut>>
       ELSE /\ \E r \in {CopyAndPopAt(heap, hBase)} :
                  /\ heap' = r.h
                  /\ hOut' = r.a
            /\ hpc' = "loaded"
            /\ hErr' = ""
    /\ UNCHANGED <<hBase, hOverride, loaderVars, concVars, pathVars, hookVars, mergerVars, deepVars>>

HeapNext ==
    \/ HeapDeepMerge
    \/ HeapMergeLists
    \/ HeapLoadFromDict

HeapSpec == HeapInit /\ [][HeapNext]_vars

(***************************************************************************)
(* A load run from its start to its end without another in between: the    *)
(* recursion of lines 36-104 taken as a function of the store.             *)
(***************************************************************************)

RECURSIVE LoadAlone(_, _, _)
RECURSIVE ParentsAlone(_, _, _, _, _)

\* lines 44-57 / 71-84; stk holds normalized_path already
DictAlone(fs, config, normalized_path, stk) ==
    LET local_config == PopExtends(config)
        extends_value == ExtendsValue(config)
    IN IF extends_value.t = "null" THEN [err |-> "", data |-> local_config]
       ELSE IF ~(IsStr(extends_value) \/ IsList(extends_value))
            THEN [err |-> "InvalidExtendsValue", data |-> EmptyMap]
            ELSE LET r == ParentsAlone(fs,
                                       IF IsStr(extends_value) THEN <<extends_value>>
                                       ELSE extends_value.kids,
                                       normalized_path, stk, EmptyMap)
                 IN IF r.err # "" THEN r
                    ELSE [err |-> "", data |-> MergeLocal(r.data, local_config)]

\* lines 98-103 with the fold of lines 52-54: the parents in written order
ParentsAlone(fs, todo, anchor, stk, merged_base) ==
    IF todo = <<>> THEN [err |-> "", data |-> merged_base]
    ELSE IF ~IsStr(Head(todo)) THEN [err |-> "InvalidExtendsValue", data |-> EmptyMap]
    ELSE LET r == LoadAlone(fs, ResolvePath(fs, Head(todo).s, anchor), stk)
         IN IF r.err # "" THEN r
            ELSE ParentsAlone(fs, Tail(todo), anchor, stk, DeepMerge(merged_base, r.data))

\* lines 37-43
LoadAlone(fs, path, stk) ==
    LET normalized_path == PathResolve(path)
        y == LoadYaml(fs, normalized_path)
    IN IF CycleDetected(normalized_path, stk)
       THEN [err |-> "CircularInheritance", data |-> EmptyMap]
       ELSE IF y.err # "" THEN [err |-> y.err, data |-> EmptyMap]
            ELSE DictAlone(fs, y.data, normalized_path, stk \cup {normalized_path})

\* lines 23-24 / 33-34 after a resolution r
ValidatedAlone(r) ==
    IF r.err # "" THEN [err |-> r.err, result |-> EmptyMap]
    ELSE IF ValidateConfig(r.data) # ""
         THEN [err |-> ValidateConfig(r.data), result |-> EmptyMap]
         ELSE [err |-> "", result |-> r.data]

\* load_config(config_path) on the store fs
LoadConfigAlone(fs, config_path) ==
    ValidatedAlone(LoadAlone(fs, ResolvePath(fs, config_path, ""), {}))

\* load_from_dict(config) on the store fs
LoadFromDictAlone(fs, config) ==
    IF ~IsMap(config) THEN [err |-> "InvalidInput", result |-> EmptyMap]
    ELSE ValidatedAlone(DictAlone(fs, config, SentinelPath, {SentinelPath}))

\* the load that `e` names (the variable entry of a load)
Alone(fs, e) ==
    IF e.kind = "file" THEN LoadConfigAlone(fs, e.ref) ELSE LoadFromDictAlone(fs, e.config)

(***************************************************************************)
(* Two loads on one loader.  One runs, the other waits in `other`; a       *)
(* switch between two steps exchanges them.  The store is shared; the      *)
(* locals of a call, its stack among them, belong to the call.             *)
(***************************************************************************)

\* a stack that belongs to the loader: every call sees the one set
ProcessWideStack(own, running) == running

\* lines 22 / 32: stack=set() is made by the call, so the call that resumes
\* finds the set it left
OwnStack(own, running) == own

\* the variables of the load that runs
Current ==
    [entry |-> entry, pc |-> pc, call |-> call, stack |-> stack, frames |-> frames,
     merged |-> merged, result |-> result, err |-> err, errLoc |-> errLoc, reads |-> reads]

\* the stores two loads share: a chain, a diamond, a cycle, a missing parent
ConcShapes ==
    { [a |-> Str("b"), b |-> Str("c"), c |-> NoExtends, d |-> NoExtends],
      [a |-> List(<<Str("b"), Str("c")>>), b |-> Str("d"), c |-> Str("d"), d |-> NoExtends],
      [a |-> Str("b"), b |-> Str("a"), c |-> NoExtends, d |-> NoExtends],
      [a |-> List(<<Str("c"), Str("b")>>), b |-> Str("nope"), c |-> NoExtends, d |-> NoExtends] }

ConcStores ==
    {[l \in FileLocs |->
        CASE l = LocOf("a") -> WithExtends(sh.a, Body("a", 2))
          [] l = LocOf("b") -> WithExtends(sh.b, Body("b", 1))
          [] l = LocOf("c") -> WithExtends(sh.c, Body("c", 4))
          [] OTHER -> WithExtends(sh.d, Body("d", 1))] :
      sh \in ConcShapes}

ConcInit ==
    /\ store \in ConcStores
    /\ LoaderIdle
    /\ HooksOff
    /\ other = IdleLoad
    /\ PathOff
    /\ MergerOff
    /\ DeepOff
    /\ HeapOff

\* the scheduler takes the running load off and puts the other on
Switch ==
    /\ other.pc # "off"
    /\ other' = Current
    /\ entry' = other.entry
    /\ pc' = other.pc
    /\ call' = other.call
    /\ stack' = OwnStack(other.stack, stack)
    /\ frames' = other.frames
    /\ merged' = other.merged
    /\ result' = other.result
    /\ err' = other.err
    /\ errLoc' = other.errLoc
    /\ reads' = other.reads
    /\ UNCHANGED <<store, schemaCalls, mergerVars, deepVars, heapVars, pathVars, hookVars>>

ConcNext ==
    \/ Next
    \/ Switch

ConcSpec == ConcInit /\ [][ConcNext]_vars

(***************************************************************************)
(* Direct calls of _resolve_path, on stores with files under the working   *)
(* directory and the base directory.                                       *)
(***************************************************************************)

\* where a file may be
PathLocs == {CWD \o "/a", BaseDir \o "/a", CWD \o "/sub/a", BaseDir \o "/sub/a"}

PathStores ==
    {[l \in PathLocs |-> IF l \in present THEN Body("a", 1) ELSE Missing] :
      present \in SUBSET PathLocs}

\* the references: plain, through a directory, through `.` and `..`, through
\* a directory that may not exist, absolute, a directory, a name of no file
PathRefs ==
    {"a", "sub/a", "./a", "sub/../a", "nodir/../a", "../cfg/a",
     "/cfg/a", "/cfg/sub/../a", "sub", "nope"}

\* the anchors: none, or the canonical location of a referring document
PathAnchors == {"", BaseDir \o "/a", BaseDir \o "/sub/a", CWD \o "/other/x"}

PathInit ==
    /\ store \in PathStores
    /\ rpc = "ready"
    /\ rRef \in PathRefs
    /\ rAnchor \in PathAnchors
    /\ rOut = ""
    /\ LoaderIdle
    /\ HooksOff
    /\ ConcOff
    /\ MergerOff
    /\ DeepOff
    /\ HeapOff

\* _resolve_path(rRef, relative_to=rAnchor)
CallResolvePath ==
    /\ rpc = "ready"
    /\ rOut' = ResolvePath(store, rRef, rAnchor)
    /\ rpc' = "resolved"
    /\ UNCHANGED <<rRef, rAnchor, loaderVars, concVars, hookVars, mergerVars, deepVars, heapVars>>

PathNext == CallResolvePath

PathSpec == PathInit /\ [][PathNext]_vars

(***************************************************************************)
(* CompletionDetectorHook (agent/hooks/completion_detector.py), with the   *)
(* agent that generates an action and hands the step to the hook.          *)
(***************************************************************************)

\* the conversions the model follows
MaxDetections == 2

\* the phrases of __init__ when none are given
DefaultPhrases ==
    << "no further commands to execute", "no more commands to execute",
       "no additional commands", "interaction is complete", "task is complete",
       "implementation is complete", "work is done", "finished" >>

\* __init__(phrases, enabled); phrases <<>> stands for None and for []
NewCompletionHook(phrases, enabled) ==
    [enabled |-> enabled,
     phrases |-> LET given == IF phrases = <<>> THEN DefaultPhrases ELSE phrases
                 IN [i \in 1..Len(given) |-> Lower(given[i])],
     detections |-> 0]

\* a hook that takes every action for a comment
AnyActionIsComment(stripped) == TRUE

\* line 92: stripped.startswith("#")
IsComment(stripped) == StartsWith(stripped, "#")

\* line 96: comment_text
CommentText(stripped) == Lower(Strip(LstripHash(stripped)))

\* lines 115-125: the thought after a conversion
CompletionThought(thought) ==
    IF thought # ""
    THEN Rstrip(thought) \o "\n\n"
         \o "[CompletionDetectorHook: Detected completion signal, "
         \o "auto-submitting instead of executing comment]"
    ELSE "[CompletionDetectorHook: Detected completion signal in action, "
         \o "auto-submitting]"

\* on_actions_generated(step): [hook, step] after the call
CompletionOnActionsGeneratedOutcome(hook, step) ==
    IF ~hook.enabled THEN [hook |-> hook, step |-> step]
    ELSE IF step.action = "" THEN [hook |-> hook, step |-> step]
    ELSE IF ~IsComment(Lstrip(step.action)) THEN [hook |-> hook, step |-> step]
    ELSE IF \E i \in 1..Len(hook.phrases) :
                Contains(CommentText(Lstrip(step.action)), hook.phrases[i])
         THEN [hook |-> [hook EXCEPT !.detections = @ + 1],
               step |-> [action |-> "submit", thought |-> CompletionThought(step.thought)]]
         ELSE [hook |-> hook, step |-> step]

\* the phrases a hook is made with
PhraseConfigs == { <<>>, <<"Done">>, <<"all good", "OK ">> }

\* the actions and thoughts a model generates
GeneratedActions ==
    { "", "  ", "#", "# done", "#DONE", " \t## Well, Done now", "done", "ls # done",
      "echo finished", "# Finished ", "#all  good", "# it is all good", "# ok", "# ok go",
      "submit", "# not yet" }

GeneratedThoughts == { "", "I am done. \n" }

CompletionInit ==
    /\ cHook \in {NewCompletionHook(phrases, enabled) :
                    phrases \in PhraseConfigs, enabled \in BOOLEAN}
    /\ cStep = [action |-> "", thought |-> ""]
    /\ cpc = "generate"
    /\ tpc = "off"
    /\ tHook = <<>>
    /\ tStep = [action |-> "", thought |-> "", observation |-> ""]
    /\ store = [l \in FileLocs |-> Missing]
    /\ LoaderIdle
    /\ ConcOff
    /\ PathOff
    /\ MergerOff
    /\ DeepOff
    /\ HeapOff

\* the agent's model generates an action
GenerateForCompletion(action, thought) ==
    /\ cpc = "generate"
    /\ cHook.detections < MaxDetections
    /\ cStep' = [action |-> action, thought |-> thought]
    /\ cpc' = "generated"
    /\ UNCHANGED <<cHook, detectorVars, loaderVars, concVars, pathVars, mergerVars,
                   deepVars, heapVars>>

\* on_actions_generated(step=cStep)
CompletionOnActionsGenerated ==
    /\ cpc = "generated"
    /\ \E o \in {CompletionOnActionsGeneratedOutcome(cHook, cStep)} :
          /\ cHook' = o.hook
          /\ cStep' = o.step
    /\ cpc' = "generate"
    /\ UNCHANGED <<detectorVars, loaderVars, concVars, pathVars, mergerVars, deepVars, heapVars>>

CompletionNext ==
    \/ \E action \in GeneratedActions, thought \in GeneratedThoughts :
          GenerateForCompletion(action, thought)
    \/ CompletionOnActionsGenerated

CompletionSpec == CompletionInit /\ [][CompletionNext]_vars

(***************************************************************************)
(* ToolErrorDetectorHook (agent/hooks/tool_error_detector.py), with the    *)
(* agent that generates an action, hands the step to on_actions_generated, *)
(* runs the action and hands the step with its observation to              *)
(* on_step_done.  The two defaultdicts are functions that give 0 for a     *)
(* key never counted.                                                      *)
(***************************************************************************)

\* the errors of a session the model follows
MaxErrors == 3

\* _is_error_observation(observation)
ErrorIndicators ==
    { "error:", "failed:", "no replacement was performed", "could not find",
      "does not exist", "permission denied", "command not found", "syntax error",
      "invalid", "exception:", "traceback" }

IsErrorObservation(observation) ==
    \E indicator \in ErrorIndicators : Contains(Lower(observation), indicator)

\* action.strip().split()[0], "" when there is no word
RECURSIVE WordFrom(_)
WordFrom(s) ==
    IF s = "" \/ IsSpace(SubSeq(s, 1, 1)) THEN ""
    ELSE SubSeq(s, 1, 1) \o WordFrom(DropFirst(s))

\* _extract_tool_name(action)
ExtractToolName(action) ==
    LET tool == WordFrom(Strip(action))
    IN IF action = "" \/ tool = "" THEN "unknown"
       ELSE IF Contains(tool, "str_replace") THEN "str_replace_editor"
       ELSE IF Contains(tool, "edit") THEN "edit_file"
       ELSE IF Contains(tool, "create") THEN "create_file"
       ELSE tool

\* observation.split('\n')
RECURSIVE SplitLines(_, _)
SplitLines(s, line) ==
    IF s = "" THEN <<line>>
    ELSE IF SubSeq(s, 1, 1) = "\n" THEN <<line>> \o SplitLines(DropFirst(s), "")
    ELSE SplitLines(DropFirst(s), line \o SubSeq(s, 1, 1))

\* s[:100]
First100(s) == IF Len(s) <= 100 THEN s ELSE SubSeq(s, 1, 100)

\* _extract_error_key(observation)
ExtractErrorKey(observation) ==
    LET lines == SplitLines(observation, "")
        named(line) == \E word \in {"error", "failed", "exception", "no replacement"} :
                          Contains(Lower(line), word)
    IN IF \E i \in 1..Len(lines) : named(lines[i])
       THEN First100(lines[CHOOSE i \in 1..Len(lines) :
                               named(lines[i]) /\ \A j \in 1..(i - 1) : ~named(lines[j])])
       ELSE First100(observation)

\* what the agent's model generates, and what running an action gives
DetectorActions == { "edit f.py", " ls -l", "submit", "" }
GeneratedSteps ==
    { <<"edit f.py", "">>, <<" ls -l", "try again \n">>, <<"submit", "">>, <<"", "">> }
Observations == { "ok", "$ edit\nError: no match", "sh: command not found" }

ToolNames == {ExtractToolName(a) : a \in DetectorActions}
ErrorKeys == {ExtractErrorKey(o) : o \in {ob \in Observations : IsErrorObservation(ob)}}

\* __init__
NewDetectorHook(enabled, max_consecutive, max_total, max_same, force) ==
    [enabled |-> enabled,
     max_consecutive_tool_errors |-> max_consecutive,
     max_total_errors |-> max_total,
     max_same_error_message |-> max_same,
     force_submit_on_max_errors |-> force,
     consecutive_errors |-> [t \in ToolNames |-> 0],
     total_errors |-> 0,
     error_messages |-> [k \in ErrorKeys |-> 0],
     intervention_count |-> 0,
     forced_submit |-> FALSE]

\* lines 93-103: the thought after a forced submit
ForcedThought(thought, original_action) ==
    IF thought # ""
    THEN Rstrip(thought) \o "\n\n"
         \o "[ToolErrorDetectorHook: Excessive errors detected. "
         \o "Forcing submission instead of: " \o original_action \o "]"
    ELSE "[ToolErrorDetectorHook: Excessive errors detected. "
         \o "Forcing submission to prevent infinite loop]"

\* on_actions_generated(step): the step after the call
DetectorOnActionsGeneratedOutcome(hook, step) ==
    IF ~hook.enabled \/ ~hook.force_submit_on_max_errors THEN step
    ELSE IF hook.forced_submit /\ step.action # "submit"
         THEN [step EXCEPT !.action = "submit",
                           !.thought = ForcedThought(step.thought, step.action)]
         ELSE step

\* the text an intervention puts behind the observation
Intervention(step, text) == [step EXCEPT !.observation = @ \o "\n\n" \o text]

\* _intervene_consecutive_errors(tool_name, count, step): [hook, step]
InterveneConsecutiveErrors(hook, tool_name, step) ==
    [hook |-> [hook EXCEPT !.intervention_count = @ + 1,
                           !.consecutive_errors[tool_name] = 0],
     step |-> Intervention(step, "SYSTEM INTERVENTION: " \o tool_name
                                     \o " has failed repeatedly in a row.")]

\* a hook that forces submission whether or not it is set up to
ForcedWhateverSetting(hook) == TRUE

\* lines 264-265: the flag after _intervene_total_errors
ForcedAfterTotalErrors(hook) ==
    IF hook.force_submit_on_max_errors THEN TRUE ELSE hook.forced_submit

\* _intervene_same_error(error_key, count, step): [hook, step]
InterveneSameError(hook, count, step) ==
    [hook |-> [hook EXCEPT !.forced_submit =
                  IF count >= hook.max_same_error_message * 2
                     /\ hook.force_submit_on_max_errors
                  THEN TRUE ELSE @],
     step |-> Intervention(step, "SYSTEM INTERVENTION: This same error has occurred repeatedly.")]

\* _intervene_total_errors(step): [hook, step]
InterveneTotalErrors(hook, step) ==
    [hook |-> [hook EXCEPT !.forced_submit = ForcedAfterTotalErrors(hook)],
     step |-> Intervention(step, "SYSTEM INTERVENTION: Too many errors encountered in this session.")]

\* lines 192-201: the thresholds, in the order the source tests them
CheckThresholds(counted, tool_name, error_key, step) ==
    IF counted.consecutive_errors[tool_name] >= counted.max_consecutive_tool_errors
    THEN InterveneConsecutiveErrors(counted, tool_name, step)
    ELSE IF counted.error_messages[error_key] >= counted.max_same_error_message
         THEN InterveneSameError(counted, counted.error_messages[error_key], step)
         ELSE IF counted.total_errors >= counted.max_total_errors
              THEN InterveneTotalErrors(counted, step)
              ELSE [hook |-> counted, step |-> step]

\* _handle_error(action, observation, step): [hook, step]
HandleError(hook, action, observation, step) ==
    Once(<<ExtractToolName(action), ExtractErrorKey(observation)>>, LAMBDA v :
        Once([hook EXCEPT !.consecutive_errors[v[1]] = @ + 1,
                          !.total_errors = @ + 1,
                          !.error_messages[v[2]] = @ + 1],
             LAMBDA counted : CheckThresholds(counted, v[1], v[2], step)))

\* on_step_done(step): [hook, step]
DetectorOnStepDoneOutcome(hook, step) ==
    IF ~hook.enabled THEN [hook |-> hook, step |-> step]
    ELSE IF IsErrorObservation(step.observation)
         THEN HandleError(hook, step.action, step.observation, step)
         ELSE [hook |-> [hook EXCEPT !.consecutive_errors[ExtractToolName(step.action)] = 0],
               step |-> step]

\* the thresholds a hook is made with: consecutive, total, same message
Thresholds == { <<5, 2, 5>>, <<3, 3, 5>>, <<5, 9, 1>> }

NoStep == [action |-> "", thought |-> "", observation |-> ""]

DetectorInit ==
    /\ tHook \in {NewDetectorHook(enabled, th[1], th[2], th[3], force) :
                    enabled \in BOOLEAN, th \in Thresholds, force \in BOOLEAN}
    /\ tStep = NoStep
    /\ tpc = "generate"
    /\ cpc = "off"
    /\ cHook = [enabled |-> FALSE, phrases |-> <<>>, detections |-> 0]
    /\ cStep = [action |-> "", thought |-> ""]
    /\ store = [l \in FileLocs |-> Missing]
    /\ LoaderIdle
    /\ ConcOff
    /\ PathOff
    /\ MergerOff
    /\ DeepOff
    /\ HeapOff

\* the agent makes a new step and its model generates an action
GenerateForDetector(action, thought) ==
    /\ tpc = "generate"
    /\ tStep' = [action |-> action, thought |-> thought, observation |-> ""]
    /\ tpc' = "generated"
    /\ UNCHANGED <<tHook, completionVars, loaderVars, concVars, pathVars, mergerVars,
                   deepVars, heapVars>>

\* on_actions_generated(step=tStep)
DetectorOnActionsGenerated ==
    /\ tpc = "generated"
    /\ tStep' = DetectorOnActionsGeneratedOutcome(tHook, tStep)
    /\ tpc' = "execute"
    /\ UNCHANGED <<tHook, completionVars, loaderVars, concVars, pathVars, mergerVars,
                   deepVars, heapVars>>

\* the environment runs the action and gives its observation
Execute(observation) ==
    /\ tpc = "execute"
    /\ IsErrorObservation(observation) => tHook.total_errors < MaxErrors
    /\ tStep' = [tStep EXCEPT !.observation = observation]
    /\ tpc' = "executed"
    /\ UNCHANGED <<tHook, completionVars, loaderVars, concVars, pathVars, mergerVars,
                   deepVars, heapVars>>

\* on_step_done(step=tStep); the agent then keeps the step in its history
DetectorOnStepDone ==
    /\ tpc = "executed"
    /\ \E o \in {DetectorOnStepDoneOutcome(tHook, tStep)} :
          /\ tHook' = o.hook
          /\ tStep' = o.step
    /\ tpc' = "generate"
    /\ UNCHANGED <<completionVars, loaderVars, concVars, pathVars, mergerVars,
                   deepVars, heapVars>>

DetectorNext ==
    \/ \E generated \in GeneratedSteps : GenerateForDetector(generated[1], generated[2])
    \/ DetectorOnActionsGenerated
    \/ \E observation \in Observations : Execute(observation)
    \/ DetectorOnStepDone

DetectorSpec == DetectorInit /\ [][DetectorNext]_vars

(***************************************************************************)
(* The claims.                                                             *)
(***************************************************************************)

\* the locations of the calls that are active, outermost first
ActivePaths == {frames[i].path : i \in 1..Len(frames)}

Terminated == pc \in {"done", "failed"}

\* the document the load started from has an `extends` key
EntryExtendsSomething ==
    \/ entry.kind = "dict" /\ IsMap(entry.config) /\ HasKey(entry.config, "extends")
    \/ entry.kind = "file" /\ reads # <<>> /\ IsMap(FileAt(store, reads[1]))
          /\ HasKey(FileAt(store, reads[1]), "extends")

\* C1: a load that returned, returned a mapping without a top-level
\* `extends` key; and the resolver already hands such a mapping to
\* _validate_config, so that the post-merge check of `extends` never fires.
C1_NoExtendsInResult ==
    /\ pc = "done" => IsMap(result) /\ ~HasKey(result, "extends")
    /\ pc = "validate" => IsMap(merged) /\ ~HasKey(merged, "extends")
    /\ err # "ExtendsLeaked"

\* a load of a document that extends another one has returned
C1_Witness ==
    /\ pc = "done"
    /\ EntryExtendsSomething
    /\ Len(reads) >= 2

\* C2: when a call starts on a location that an active call is still
\* resolving, and no error was met before, that step fails the load with
\* CircularInheritance, the error names that location, and no tree is returned.
C2_CycleRaises ==
    [][(pc = "call" /\ PathResolve(call) \in ActivePaths)
         => /\ pc' = "failed"
            /\ err' = "CircularInheritance"
            /\ errLoc' = PathResolve(call)
            /\ result' = EmptyMap]_vars

\* a load failed on a location that one of its active calls is resolving
C2_Witness ==
    /\ pc = "failed"
    /\ err = "CircularInheritance"
    /\ errLoc = PathResolve(call)
    /\ errLoc \in ActivePaths

\* C3: CircularInheritance is raised only for a location that an active call
\* is resolving: a location resolved before, whose call has returned (the
\* second branch of a diamond, the second mention in one extends list), is
\* read and resolved again and does not fail the load.
C3_CycleOnlyOnActivePath ==
    /\ err = "CircularInheritance" => errLoc \in ActivePaths
    /\ (pc = "call" /\ PathResolve(call) \notin ActivePaths)
          => PathResolve(call) \notin stack

\* a load returned after it resolved some location twice
C3_Witness ==
    /\ pc = "done"
    /\ \E i, j \in 1..Len(reads) : i < j /\ reads[i] = reads[j]

\* C4: every load ends: it returns a tree or raises.
C4_Terminates == <>Terminated

\* a load over a cycle of three documents has ended
C4_Witness ==
    /\ Terminated
    /\ err = "CircularInheritance"
    /\ Len(reads) >= 3

\* the document a load starts from, and the location it has
EntryDoc == IF entry.kind = "dict" THEN entry.config ELSE FileAt(store, reads[1])
EntryLoc == IF entry.kind = "dict" THEN SentinelPath ELSE reads[1]

\* the tree the resolver returned to load_config / load_from_dict
Loaded == IF pc = "done" THEN result ELSE merged

IsScalar(x) == x.t \in {"str", "num", "null"}

\* merge(... merge(merge(t1, t2), t3) ..., tn): the first tree is the base
RECURSIVE FoldLeft(_)
FoldLeft(trees) ==
    IF Len(trees) = 0 THEN EmptyMap
    ELSE IF Len(trees) = 1 THEN trees[1]
    ELSE DeepMerge(FoldLeft(SubSeq(trees, 1, Len(trees) - 1)), trees[Len(trees)])

\* m has the keys of all the docs; a key whose last definer among docs
\* gives it a scalar has that scalar, and a key that every definer maps to
\* a mapping obeys the same rule one level down
RECURSIVE LastDefinerWins(_, _)
LastDefinerWins(m, docs) ==
    /\ IsMap(m)
    /\ Range(m.keys) = UNION {Range(docs[i].keys) : i \in 1..Len(docs)}
    /\ \A k \in Range(m.keys) :
          LET defs == SelectSeq(docs, LAMBDA d : HasKey(d, k))
              vals == [i \in 1..Len(defs) |-> Get(defs[i], k)]
          IN /\ IsScalar(vals[Len(vals)]) => Get(m, k) = vals[Len(vals)]
             /\ (\A i \in 1..Len(vals) : IsMap(vals[i])) => LastDefinerWins(Get(m, k), vals)

\* the entry document lists its parents, and none of them extends anything
EntryParentLocs ==
    [i \in 1..Len(Get(EntryDoc, "extends").kids) |->
        ResolvePath(store, Get(EntryDoc, "extends").kids[i].s, EntryLoc)]

FlatParents ==
    /\ IsMap(EntryDoc)
    /\ HasKey(EntryDoc, "extends")
    /\ IsList(Get(EntryDoc, "extends"))
    /\ \A i \in 1..Len(Get(EntryDoc, "extends").kids) :
          /\ IsStr(Get(EntryDoc, "extends").kids[i])
          /\ IsMap(FileAt(store, EntryParentLocs[i]))
          /\ ~HasKey(FileAt(store, EntryParentLocs[i]), "extends")

\* C5: a document with `extends: [p1, ..., pn]` resolves to the merge of its
\* local tree over the left-to-right fold of the resolved parents (the first
\* parent the base): a key that the last of parents-then-child to define it
\* gives a scalar has that value, so the child wins when it defines the key,
\* else the last parent that does; and when the parents extend nothing the
\* load returns that fold of the stored documents.
C5_ParentsFoldLeftToRight ==
    /\ pc = "merged" =>
          LET top == frames[Len(frames)]
          IN /\ TreeEq(top.merged, DeepMerge(FoldLeft(top.resolved), top.local))
             /\ LastDefinerWins(top.merged, top.resolved \o <<top.local>>)
    /\ (pc \in {"validate", "done"} /\ FlatParents) =>
          LET parents == [i \in 1..Len(EntryParentLocs) |-> FileAt(store, EntryParentLocs[i])]
          IN /\ TreeEq(Loaded, DeepMerge(FoldLeft(parents), DelKey(EntryDoc, "extends")))
             /\ LastDefinerWins(Loaded, parents \o <<DelKey(EntryDoc, "extends")>>)

\* a load of a document with two different parents returned; both parents
\* set settings.prompt, the document does not, and the result has the
\* second parent's
C5_Witness ==
    /\ pc = "done"
    /\ FlatParents
    /\ Len(EntryParentLocs) = 2
    /\ EntryParentLocs[1] # EntryParentLocs[2]
    /\ HasKey(EntryDoc, "settings")
    /\ ~HasKey(Get(EntryDoc, "settings"), "prompt")
    /\ \A i \in 1..2 : HasKey(Get(FileAt(store, EntryParentLocs[i]), "settings"), "prompt")
    /\ Get(Get(result, "settings"), "prompt")
          = Get(Get(FileAt(store, EntryParentLocs[2]), "settings"), "prompt")

\* the longest chain of documents a store holds, and one more
ChainFuel == Cardinality(FileLocs) + 1

\* the local trees of the single-parent chain that ends in doc (stored at
\* loc), the root ancestor first; <<>> when doc does not end such a chain
RECURSIVE ChainLocals(_, _, _)
ChainLocals(doc, loc, fuel) ==
    IF ~IsMap(doc) \/ fuel = 0 THEN <<>>
    ELSE IF ~HasKey(doc, "extends") THEN <<doc>>
    ELSE IF ~IsStr(Get(doc, "extends")) THEN <<>>
    ELSE LET parent == ResolvePath(store, Get(doc, "extends").s, loc)
             above == ChainLocals(FileAt(store, parent), parent, fuel - 1)
         IN IF above = <<>> THEN <<>> ELSE Append(above, DelKey(doc, "extends"))

\* C6: the load of a document at the end of a single-parent chain returns
\* the local trees of the chain merged from the root ancestor down,
\* merge(merge(G, P), C); a key that its nearest definer gives a scalar has
\* that value, and every key of an ancestor is in the result.
C6_ChainMergesFromRoot ==
    pc \in {"validate", "done"} =>
        LET chain == ChainLocals(EntryDoc, EntryLoc, ChainFuel)
        IN Len(chain) >= 2 =>
              /\ TreeEq(Loaded, FoldLeft(chain))
              /\ LastDefinerWins(Loaded, chain)

\* a load over a chain of three documents or more returned, with a key
\* that only the root ancestor defines and a scalar that the document and
\* its parent both set
C6_Witness ==
    /\ pc = "done"
    /\ LET chain == ChainLocals(EntryDoc, EntryLoc, ChainFuel)
       IN /\ Len(chain) >= 3
          /\ \E k \in Range(result.keys) :
                \A i \in 2..Len(chain) : ~HasKey(chain[i], k)
          /\ \A i \in (Len(chain) - 1)..Len(chain) :
                /\ HasKey(chain[i], "settings")
                /\ HasKey(Get(chain[i], "settings"), "prompt")
          /\ Get(Get(chain[Len(chain)], "settings"), "prompt")
                # Get(Get(chain[Len(chain) - 1], "settings"), "prompt")

\* an append item: a string that begins with `+`, or a mapping one of whose
\* keys does
IsAppendItem(item) ==
    \/ IsStr(item) /\ StartsWith(item.s, "+")
    \/ IsMap(item) /\ \E i \in 1..Len(item.keys) : StartsWith(item.keys[i], "+")

\* a key less one leading `+`
StripKey(key) == IF StartsWith(key, "+") THEN DropFirst(key) ELSE key

\* an append item with its prefixes stripped: of the pairs of a mapping
\* whose keys are the same once stripped, the first gives the place and the
\* last the value
Stripped(item) ==
    IF IsStr(item) THEN Str(DropFirst(item.s))
    ELSE LET n == Len(item.keys)
             firsts == SelectSeq([i \in 1..n |-> i],
                           LAMBDA i : \A j \in 1..(i - 1) :
                               StripKey(item.keys[j]) # StripKey(item.keys[i]))
             last(k) == CHOOSE i \in 1..n :
                           /\ StripKey(item.keys[i]) = k
                           /\ \A j \in (i + 1)..n : StripKey(item.keys[j]) # k
         IN Map([j \in 1..Len(firsts) |-> StripKey(item.keys[firsts[j]])],
                [j \in 1..Len(firsts) |-> item.kids[last(StripKey(item.keys[firsts[j]]))]])

\* C7: when every item of the override list is an append item (an empty
\* override list too), the merged list is the whole base list, in its order
\* and as it is, followed by the override's items in their order with the
\* prefixes stripped.
C7_AppendOnlyKeepsBase ==
    (mpc = "lists" /\ \A i \in 1..Len(mOverride) : IsAppendItem(mOverride[i]))
        => mOut.n = List(mBase \o [i \in 1..Len(mOverride) |-> Stripped(mOverride[i])])

\* a list of append items was merged into a base list that is not empty
C7_Witness ==
    /\ mpc = "lists"
    /\ mBase # <<>>
    /\ mOverride # <<>>
    /\ \A i \in 1..Len(mOverride) : IsAppendItem(mOverride[i])
    /\ Len(mOut.n.kids) = Len(mBase) + Len(mOverride)

\* C8: when some item of the override list is a replacement item, the merged
\* list holds nothing of the base list: it is the replacement items as they
\* are, in their order, followed by the append items in their order with the
\* prefixes stripped, wherever they stood in the override list.
C8_ReplacementDiscardsBase ==
    (mpc = "lists" /\ \E i \in 1..Len(mOverride) : ~IsAppendItem(mOverride[i]))
        => LET replacements == SelectSeq(mOverride, LAMBDA x : ~IsAppendItem(x))
               appends == SelectSeq(mOverride, IsAppendItem)
           IN mOut.n = List(replacements \o [i \in 1..Len(appends) |-> Stripped(appends[i])])

\* an override list whose append item stands before its replacement item was
\* merged into a base list that is not empty
C8_Witness ==
    /\ mpc = "lists"
    /\ mBase # <<>>
    /\ Len(mOverride) = 2
    /\ IsAppendItem(mOverride[1])
    /\ ~IsAppendItem(mOverride[2])
    /\ mOut.n = List(<<mOverride[2], Stripped(mOverride[1])>>)

\* the local tree of every document the load read, and of the document it
\* was given
LocalsRead ==
    {DelKey(FileAt(store, reads[i]), "extends") :
        i \in {j \in 1..Len(reads) : IsMap(FileAt(store, reads[j]))}}
    \cup (IF entry.kind = "dict" /\ IsMap(entry.config)
          THEN {DelKey(entry.config, "extends")} ELSE {})

\* no append item of a list of doc stands, as doc wrote it, in the list that
\* m has at the same place
RECURSIVE NoItemAsWritten(_, _)
NoItemAsWritten(doc, m) ==
    IF IsMap(doc) /\ IsMap(m)
    THEN \A i \in 1..Len(doc.keys) :
            HasKey(m, doc.keys[i]) => NoItemAsWritten(doc.kids[i], Get(m, doc.keys[i]))
    ELSE IF IsList(doc) /\ IsList(m)
         THEN \A i \in 1..Len(doc.kids) :
                 IsAppendItem(doc.kids[i]) => doc.kids[i] \notin Range(m.kids)
         ELSE TRUE

\* C9 as the claim states it: the result of a load holds no append item with
\* its prefix, whichever document wrote it and whatever the ancestors have at
\* that key.
C9_NoPrefixInResult ==
    pc = "done" => \A doc \in LocalsRead : NoItemAsWritten(doc, result)

\* one merge of override over base into m: where both have a list at a key,
\* the append items of override's list end m's list, in their order and
\* stripped; where base has no such key, or the two values are not both
\* lists nor both mappings, m has override's value as written
RECURSIVE StripsOverLists(_, _, _)
StripsOverLists(base, override, m) ==
    \A i \in 1..Len(override.keys) :
        LET k == override.keys[i]
            v == override.kids[i]
        IN /\ HasKey(m, k)
           /\ IF ~HasKey(base, k) THEN Get(m, k) = v
              ELSE IF IsMap(Get(base, k)) /\ IsMap(v)
                   THEN StripsOverLists(Get(base, k), v, Get(m, k))
                   ELSE IF IsList(Get(base, k)) /\ IsList(v)
                        THEN LET appends == SelectSeq(v.kids, IsAppendItem)
                                 got == Get(m, k).kids
                             IN /\ IsList(Get(m, k))
                                /\ Len(got) >= Len(appends)
                                /\ SubSeq(got, Len(got) - Len(appends) + 1, Len(got))
                                      = [j \in 1..Len(appends) |-> Stripped(appends[j])]
                        ELSE Get(m, k) = v

\* C9 amended: the prefix of an append item is stripped when the list that
\* holds it is merged over a list.  In every merge of the resolver (the last
\* parent over the fold of the parents before it, the document over the fold
\* of its parents), at a key where both sides hold a list the override's
\* append items end the merged list with the prefix stripped; at a key the
\* base lacks, or holds no list at, the override's list is taken as written,
\* prefixes included; and a document that extends nothing is returned as
\* written.
C9_StrippedWhereListsMerge ==
    /\ pc = "merged" =>
          LET top == frames[Len(frames)]
              n == Len(top.resolved)
          IN /\ StripsOverLists(top.merged_base, top.local, top.merged)
             /\ n >= 1 => StripsOverLists(FoldLeft(SubSeq(top.resolved, 1, n - 1)),
                                          top.resolved[n], top.merged_base)
    /\ (pc \in {"validate", "done"} /\ IsMap(EntryDoc) /\ ~HasKey(EntryDoc, "extends"))
          => Loaded = EntryDoc

\* a document whose list holds an append item was merged over parents that
\* hold a list at that key, and the merged list ends with the item stripped
C9_Witness ==
    /\ pc = "merged"
    /\ LET top == frames[Len(frames)]
       IN /\ HasKey(top.local, "settings") /\ HasKey(top.merged_base, "settings")
          /\ HasKey(Get(top.local, "settings"), "steps")
          /\ HasKey(Get(top.merged_base, "settings"), "steps")
          /\ LET mine == Get(Get(top.local, "settings"), "steps")
                 theirs == Get(Get(top.merged_base, "settings"), "steps")
                 got == Get(Get(top.merged, "settings"), "steps")
             IN /\ IsList(mine) /\ IsList(theirs) /\ theirs.kids # <<>>
                /\ mine.kids # <<>>
                /\ \A i \in 1..Len(mine.kids) : IsAppendItem(mine.kids[i])
                /\ got = List(theirs.kids \o [i \in 1..Len(mine.kids) |-> Stripped(mine.kids[i])])

\* C10 as the claim states it: an item is an append item exactly when it is
\* a string that begins with `+` or a mapping with a key that does; the
\* string loses one leading `+`; every key-value pair of a mapping is in the
\* normalized mapping, under its key less one leading `+`; any other item is
\* used as it is.
C10_EveryPairKept ==
    mpc = "item" =>
        /\ mOut.a = IsAppendItem(mItem)
        /\ (IsStr(mItem) /\ mOut.a) => mOut.n = Str(DropFirst(mItem.s))
        /\ IsMap(mItem) =>
              /\ IsMap(mOut.n)
              /\ \A i \in 1..Len(mItem.keys) :
                    /\ HasKey(mOut.n, StripKey(mItem.keys[i]))
                    /\ Get(mOut.n, StripKey(mItem.keys[i])) = mItem.kids[i]
        /\ ~mOut.a => TreeEq(mOut.n, mItem)

\* C10 amended: the classification and the string are as stated; the keys of
\* the normalized mapping are the item's keys less one leading `+`, each
\* once; a pair of the item is in it under its stripped key unless a later
\* pair of the item has the same stripped key, and then the later pair's
\* value is the one kept.
C10_LaterPairWins ==
    mpc = "item" =>
        /\ mOut.a = IsAppendItem(mItem)
        /\ (IsStr(mItem) /\ mOut.a) => mOut.n = Str(DropFirst(mItem.s))
        /\ IsMap(mItem) =>
              /\ IsMap(mOut.n)
              /\ Range(mOut.n.keys) = {StripKey(mItem.keys[i]) : i \in 1..Len(mItem.keys)}
              /\ Cardinality(Range(mOut.n.keys)) = Len(mOut.n.keys)
              /\ \A i \in 1..Len(mItem.keys) :
                    (\A j \in (i + 1)..Len(mItem.keys) :
                         StripKey(mItem.keys[j]) # StripKey(mItem.keys[i]))
                      => Get(mOut.n, StripKey(mItem.keys[i])) = mItem.kids[i]
        /\ ~mOut.a => TreeEq(mOut.n, mItem)

\* a mapping whose keys `+a` and `a` are the same once stripped was
\* normalized: an append item of one pair, with the value of the later key
C10_Witness ==
    /\ mpc = "item"
    /\ IsMap(mItem)
    /\ Len(mItem.keys) = 2
    /\ StripKey(mItem.keys[1]) = StripKey(mItem.keys[2])
    /\ mOut.a
    /\ mOut.n = Map(<<StripKey(mItem.keys[1])>>, <<mItem.kids[2]>>)

\* the list merge as the rules state it: the replacement items if there
\* are any, else the base, then the append items stripped
ListMerged(base, override) ==
    LET replacements == SelectSeq(override, LAMBDA x : ~IsAppendItem(x))
        appends == SelectSeq(override, IsAppendItem)
    IN (IF replacements # <<>> THEN replacements ELSE base)
           \o [i \in 1..Len(appends) |-> Stripped(appends[i])]

\* m is the merge of override over base, rule by rule
RECURSIVE MergedAs(_, _, _)
MergedAs(base, override, m) ==
    /\ IsMap(m)
    /\ Range(m.keys) = Range(base.keys) \cup Range(override.keys)
    /\ \A k \in Range(m.keys) :
          IF ~HasKey(override, k) THEN Get(m, k) = Get(base, k)
          ELSE IF ~HasKey(base, k) THEN Get(m, k) = Get(override, k)
          ELSE IF IsMap(Get(base, k)) /\ IsMap(Get(override, k))
               THEN MergedAs(Get(base, k), Get(override, k), Get(m, k))
               ELSE IF IsList(Get(base, k)) /\ IsList(Get(override, k))
                    THEN Get(m, k) = List(ListMerged(Get(base, k).kids, Get(override, k).kids))
                    ELSE Get(m, k) = Get(override, k)

\* a key of both mappings holds two different scalars
SharedScalarDiffers(a, b) ==
    \E k \in Range(a.keys) \cap Range(b.keys) :
        /\ IsScalar(Get(a, k))
        /\ IsScalar(Get(b, k))
        /\ Get(a, k) # Get(b, k)

\* C11: the merge of two mappings has the keys of both at every level of
\* mappings; a key of one side has that side's value; a key of both is merged
\* again when both values are mappings, list-merged when both are lists, and
\* has the override's value otherwise; so the merge in the other order is a
\* different tree when a shared key holds two different scalars.
C11_MergeRules ==
    /\ dpc = "merged" => MergedAs(dBase, dOverride, dOut)
    /\ (dSwapped # NoResult /\ SharedScalarDiffers(dBase, dOverride))
          => ~TreeEq(dOut, dSwapped)

\* two mappings were merged in both orders: one key of both holds different
\* scalars, one key is the override's alone, and the results differ
C11_Witness ==
    /\ dpc = "merged"
    /\ dSwapped # NoResult
    /\ SharedScalarDiffers(dBase, dOverride)
    /\ Range(dOverride.keys) \ Range(dBase.keys) # {}
    /\ \A k \in Range(dBase.keys) \cap Range(dOverride.keys) :
          Get(dOut, k) = Get(dOverride, k) /\ Get(dSwapped, k) = Get(dBase, k)

\* a tree of mappings and scalars
RECURSIVE NoLists(_)
NoLists(tree) ==
    /\ ~IsList(tree)
    /\ \A i \in 1..Len(tree.kids) : NoLists(tree.kids[i])

\* some key, at a level where the three trees are mappings, holds a mapping
\* in the first and the third and something else in the second
RECURSIVE Sandwich(_, _, _)
Sandwich(a, b, c) ==
    \E k \in Range(a.keys) \cap Range(b.keys) \cap Range(c.keys) :
        /\ IsMap(Get(a, k))
        /\ IsMap(Get(c, k))
        /\ IsMap(Get(b, k)) => Sandwich(Get(a, k), Get(b, k), Get(c, k))

\* C12 as the claim states it: for mappings without lists,
\* merge(merge(A, B), C) = merge(A, merge(B, C)), also when a key holds a
\* mapping in one of them and a scalar in another.
C12_Associative ==
    (dLeft # NoResult /\ dRight # NoResult
        /\ NoLists(dBase) /\ NoLists(dOverride) /\ NoLists(dThird))
        => TreeEq(dLeft, dRight)

\* C12 amended: for mappings without lists, merge(merge(A, B), C) =
\* merge(A, merge(B, C)) unless some key holds a mapping in A and in C and
\* a scalar in B at the same place.
C12_AssociativeUnlessSandwich ==
    (dLeft # NoResult /\ dRight # NoResult
        /\ NoLists(dBase) /\ NoLists(dOverride) /\ NoLists(dThird)
        /\ ~Sandwich(dBase, dOverride, dThird))
        => TreeEq(dLeft, dRight)

\* three mappings without lists were merged in both groupings; a key of
\* all three holds a scalar in the first and mappings in the other two
C12_Witness ==
    /\ dLeft # NoResult
    /\ dRight # NoResult
    /\ NoLists(dBase) /\ NoLists(dOverride) /\ NoLists(dThird)
    /\ \E k \in Range(dBase.keys) \cap Range(dOverride.keys) \cap Range(dThird.keys) :
          /\ IsScalar(Get(dBase, k))
          /\ IsMap(Get(dOverride, k))
          /\ IsMap(Get(dThird, k))
          /\ Get(dOverride, k) # Get(dThird, k)
    /\ TreeEq(dLeft, dRight)

\* C13: a call of _deep_merge, of _merge_lists or of load_from_dict changes
\* no object that existed before it: base, override and the caller's
\* mapping, with every object under them, are after the call what they
\* were before (keys, items, `+` prefixes and `extends` included), and
\* load_from_dict pops `extends` from an object of its own.
C13_InputsNotMutated ==
    [][/\ Len(heap') >= Len(heap)
       /\ \A a \in 1..Len(heap) : heap'[a] = heap[a]
       /\ hpc' = "loaded" => hOut' > Len(heap)]_vars

\* a list with append items was merged over a list of the base, and the
\* override still holds its items as written
C13_Witness ==
    /\ hpc = "merged"
    /\ \E k \in Range(heap[hBase].keys) \cap Range(heap[hOverride].keys) :
          /\ IsList(heap[Get(heap[hBase], k)])
          /\ IsList(heap[Get(heap[hOverride], k)])
          /\ \E i \in 1..Len(heap[Get(heap[hOverride], k)].kids) :
                IsAppendItem(heap[heap[Get(heap[hOverride], k)].kids[i]])
          /\ ValueAt(heap, Get(heap[hOut], k)) # ValueAt(heap, Get(heap[hBase], k))
          /\ ValueAt(heap, Get(heap[hOut], k)) # ValueAt(heap, Get(heap[hOverride], k))

\* C14: load_from_dict of a mapping that has no `extends` key and passes
\* validation reads nothing and returns a tree equal to the mapping, key by
\* key and item by item, `+` prefixes included.
C14_PlainDictUnchanged ==
    (/\ Terminated
     /\ entry.kind = "dict"
     /\ IsMap(entry.config)
     /\ ~HasKey(entry.config, "extends")
     /\ ValidateConfig(entry.config) = "")
        => /\ pc = "done"
           /\ result = entry.config
           /\ reads = <<>>

\* load_from_dict returned a mapping without `extends` whose list holds
\* append items, as it was given
C14_Witness ==
    /\ pc = "done"
    /\ entry.kind = "dict"
    /\ ~HasKey(entry.config, "extends")
    /\ \E i \in 1..Len(Get(Get(result, "settings"), "steps").kids) :
          IsAppendItem(Get(Get(result, "settings"), "steps").kids[i])

\* the documents a load has reached: those it read, and the mapping it was given
DocsReached ==
    {FileAt(store, reads[i]) : i \in 1..Len(reads)}
        \cup (IF entry.kind = "dict" THEN {entry.config} ELSE {})

\* `extends` is there and is neither a string nor a list of strings
InvalidExtends(doc) ==
    /\ IsMap(doc)
    /\ HasKey(doc, "extends")
    /\ ~IsStr(Get(doc, "extends"))
    /\ \/ ~IsList(Get(doc, "extends"))
       \/ \E i \in 1..Len(Get(doc, "extends").kids) : ~IsStr(Get(doc, "extends").kids[i])

\* C15: a load that reached a document whose `extends` is neither a string
\* nor a list of strings (null, a number, a mapping, a list with an entry
\* that is no string) has failed with InvalidExtendsValue and returned no
\* tree.
C15_InvalidExtendsRaises ==
    (Terminated /\ \E doc \in DocsReached : InvalidExtends(doc))
        => /\ pc = "failed"
           /\ err = "InvalidExtendsValue"
           /\ result = EmptyMap

\* the errors the resolver raises
ResolverErrors ==
    {"NotFound", "NotAMapping", "InvalidExtendsValue", "CircularInheritance"}

\* a file that reads as a mapping: a mapping, or nothing but white space or null
ReadsAsMapping(file) == IsMap(file) \/ file.t \in {"blank", "null"}

\* C16: a load returns a tree only when every document it reached read as a
\* mapping; the first failure the resolver meets (a location met again on
\* the active path, a missing document, a document that is no mapping, an
\* `extends` it rejects) fails the load in that step with that error for
\* that location; after it nothing more is read, the validator does not
\* run, and no tree is returned.
C16_FirstFailureAborts ==
    /\ [](/\ pc = "done" => \A i \in 1..Len(reads) : ReadsAsMapping(FileAt(store, reads[i]))
          /\ pc = "failed" => result = EmptyMap
          /\ pc \in {"validate", "done"} => frames = <<>> /\ err = "")
    /\ [][/\ pc # "failed"
          /\ pc = "call" =>
                LET location == PathResolve(call)
                    file == FileAt(store, location)
                IN IF location \in ActivePaths
                   THEN /\ pc' = "failed" /\ err' = "CircularInheritance"
                        /\ errLoc' = location /\ reads' = reads
                   ELSE /\ reads' = Append(reads, location)
                        /\ IF file.t = "missing"
                           THEN pc' = "failed" /\ err' = "NotFound" /\ errLoc' = location
                           ELSE IF ~ReadsAsMapping(file)
                                THEN pc' = "failed" /\ err' = "NotAMapping" /\ errLoc' = location
                                ELSE pc' = "failed" =>
                                        /\ err' = "InvalidExtendsValue"
                                        /\ InvalidExtends(file)
          /\ (pc' = "failed" /\ pc # "validate") =>
                /\ err' \in ResolverErrors \cup {"InvalidInput"}
                /\ merged' = merged
                /\ result' = EmptyMap]_vars

\* a load failed on the first parent of a list, a missing document, and the
\* parents after it were not read
C16_Witness ==
    /\ pc = "failed"
    /\ err = "NotFound"
    /\ Len(reads) = 2
    /\ errLoc = reads[2]
    /\ frames # <<>>
    /\ frames[Len(frames)].todo # <<>>
    /\ result = EmptyMap

\* the path of an entry of agent.tools.bundles: the entry, or its `path`
BundlePath(bundle) ==
    IF ~IsMap(bundle) THEN bundle
    ELSE IF HasKey(bundle, "path") THEN Get(bundle, "path") ELSE Null

\* C17: a tree that a load returned has an `agent` mapping with a `tools`
\* mapping and a `templates` mapping whose `system_template` is a string;
\* agent.tools.bundles, if there, is a list whose entries have a string path
\* under tools/ that begins with no disallowed prefix; and
\* agent.history_processors is a list with a mapping of type cache_control.
C17_ResultSatisfiesSchema ==
    pc = "done" =>
        /\ IsMap(result)
        /\ HasKey(result, "agent")
        /\ LET agent == Get(result, "agent")
           IN /\ IsMap(agent)
              /\ HasKey(agent, "tools") /\ IsMap(Get(agent, "tools"))
              /\ HasKey(agent, "templates") /\ IsMap(Get(agent, "templates"))
              /\ HasKey(Get(agent, "templates"), "system_template")
              /\ IsStr(Get(Get(agent, "templates"), "system_template"))
              /\ HasKey(Get(agent, "tools"), "bundles") =>
                    LET bundles == Get(Get(agent, "tools"), "bundles")
                    IN /\ IsList(bundles)
                       /\ \A i \in 1..Len(bundles.kids) :
                             LET path == BundlePath(bundles.kids[i])
                             IN /\ IsStr(path)
                                /\ StartsWith(path.s, "tools/")
                                /\ \A p \in DISALLOWED_BUNDLE_PREFIXES : ~StartsWith(path.s, p)
              /\ HasKey(agent, "history_processors")
              /\ IsList(Get(agent, "history_processors"))
              /\ \E i \in 1..Len(Get(agent, "history_processors").kids) :
                    LET processor == Get(agent, "history_processors").kids[i]
                    IN /\ IsMap(processor)
                       /\ HasKey(processor, "type")
                       /\ Get(processor, "type") = Str("cache_control")

\* a load returned a tree with a bundle written as a plain string, a bundle
\* written as a mapping, and processors of other types next to cache_control
C17_Witness ==
    /\ pc = "done"
    /\ LET agent == Get(result, "agent")
       IN /\ HasKey(Get(agent, "tools"), "bundles")
          /\ \E i, j \in 1..Len(Get(Get(agent, "tools"), "bundles").kids) :
                /\ IsStr(Get(Get(agent, "tools"), "bundles").kids[i])
                /\ IsMap(Get(Get(agent, "tools"), "bundles").kids[j])
          /\ Len(Get(agent, "history_processors").kids) >= 3

\* a load ended as it ends when it runs alone on the same store
EndsAsAlone(load) ==
    load.pc \in {"done", "failed"} =>
        /\ load.err = Alone(store, load.entry).err
        /\ load.result = Alone(store, load.entry).result
        /\ (load.pc = "done") = (load.err = "")

\* C18: of two loads on one loader whose steps interleave in any order, each
\* returns the tree or raises the error it returns or raises when it runs
\* alone; a location in one load's stack is no cycle for the other.
C18_InterleavedAsAlone ==
    /\ EndsAsAlone(Current)
    /\ other.pc # "off" => EndsAsAlone(other)

\* a load returned a tree built from a location that the other load, taken
\* off in the middle of its resolution, holds in its stack
C18_Witness ==
    /\ pc = "done"
    /\ other.pc \in {"call", "resolve", "merged"}
    /\ \E i \in 1..Len(reads) : reads[i] \in other.stack

\* the store with a document of content D at the sentinel location
StoreWithSentinel(fs, D) ==
    [l \in DOMAIN fs \cup {SentinelPath} |-> IF l = SentinelPath THEN D ELSE fs[l]]

\* a load_from_dict(D) ended with the error and tree that load_config of the
\* sentinel location has on the store that holds D there
EndsAsFileAtSentinel ==
    LET file == LoadConfigAlone(StoreWithSentinel(store, entry.config), SentinelPath)
    IN /\ err = file.err
       /\ result = file.result

\* C19 as stated, for whatever D is handed to load_from_dict
C19_DictAsFileAtSentinel ==
    (Terminated /\ entry.kind = "dict") => EndsAsFileAtSentinel

\* C19: for a mapping D, load_from_dict(D) ends as load_config of a document
\* D at base_dir/__generated__.yaml ends: with the same tree or the same kind
\* of error; the first location it reads is the first relative reference of
\* D's `extends` taken against the sentinel's directory; and a reference of
\* the parent chain to the sentinel location raises CircularInheritance.
C19_MappingAsFileAtSentinel ==
    /\ []((Terminated /\ entry.kind = "dict" /\ IsMap(entry.config))
            => EndsAsFileAtSentinel)
    /\ []((entry.kind = "dict" /\ IsMap(entry.config) /\ reads # <<>>)
            => /\ HasKey(entry.config, "extends")
               /\ LET e == Get(entry.config, "extends")
                      first == IF IsStr(e) THEN e ELSE e.kids[1]
                  IN ~IsAbsolute(first.s) =>
                        reads[1] = PathResolve(Join(ParentOf(SentinelPath), first.s)))
    /\ [][(entry.kind = "dict" /\ pc = "call" /\ PathResolve(call) = SentinelPath)
            => /\ pc' = "failed"
               /\ err' = "CircularInheritance"
               /\ errLoc' = SentinelPath
               /\ reads' = reads]_vars

\* a load_from_dict whose parent, found next to the sentinel, refers back to
\* the sentinel location has failed with CircularInheritance
C19_Witness ==
    /\ pc = "failed" /\ entry.kind = "dict"
    /\ err = "CircularInheritance" /\ errLoc = SentinelPath
    /\ reads = <<LocOf("a")>>

\* the candidate of a relative reference under a directory, canonical
CandidateUnder(dir, reference) == PathResolve(dir \o "/" \o reference)

C23_StackHoldsActiveCalls ==
    /\ [](/\ pc \in {"call", "resolve", "merged"} =>
                /\ stack = ActivePaths
                /\ Cardinality(stack) = Len(frames)
          /\ pc \in {"idle", "validate", "done"} => stack = {} /\ frames = <<>>
          /\ (pc = "failed" /\ err \notin ResolverErrors \cup {"InvalidInput"}) => stack = {})
    /\ [][/\ (pc = "merged" /\ pc' # "merged") =>
                /\ frames[Len(frames)].path \in stack
                /\ stack' = stack \ {frames[Len(frames)].path}
                /\ Len(frames') = Len(frames) - 1
          /\ (pc = "call" /\ pc' \in {"resolve", "validate"}) =>
                \/ stack' = stack /\ frames' # <<>> /\ Len(frames') = Len(frames)
                \/ stack' = stack /\ frames' = <<>> /\ frames = <<>>
                \/ /\ Len(frames') = Len(frames) + 1
                   /\ frames'[Len(frames')].path \notin stack
                   /\ stack' = stack \cup {frames'[Len(frames')].path}]_vars

\* two calls are active and in the stack, and a parent of the inner one has
\* returned and is out of it
C23_Witness ==
    /\ pc = "resolve"
    /\ Len(frames) >= 2
    /\ frames[Len(frames)].resolved # <<>>
    /\ Cardinality(stack) = 2

\* the resolution of the whole extends graph of the load, before validation
ResolvedAlone ==
    IF entry.kind = "file" THEN LoadAlone(store, ResolvePath(store, entry.ref, ""), {})
    ELSE DictAlone(store, entry.config, SentinelPath, {SentinelPath})

\* what a document is on its own: its tree without `extends`
OnItsOwn(location) == PopExtends(LoadYaml(store, location).data)

\* C24: in one load validate_config_schema is called at most once; when it
\* is called every call of the resolver has returned, its argument is the
\* merged tree of the whole load, a mapping without `extends`, and never the
\* tree of a parent; a load that returned has called it; and if it raised,
\* its error is the error of the load.
C24_SchemaCalledOnceOnMerged ==
    /\ [](/\ Len(schemaCalls) <= 1
          /\ pc = "done" => Len(schemaCalls) = 1
          /\ schemaCalls # <<>> =>
                /\ Terminated
                /\ frames = <<>> /\ stack = {}
                /\ schemaCalls[1] = merged
                /\ ResolvedAlone.err = "" /\ merged = ResolvedAlone.data
                /\ IsMap(merged) /\ ~HasKey(merged, "extends")
                /\ (pc = "failed") = (SchemaError(merged) # "")
                /\ pc = "failed" => err = "SchemaError")
    /\ [][schemaCalls' # schemaCalls =>
            /\ pc = "validate"
            /\ schemaCalls' = Append(schemaCalls, merged)
            /\ merged' = merged]_vars

\* a load returned whose entry document extends a parent that the schema
\* rejects on its own; the validator saw the merged tree only
C24_Witness ==
    /\ pc = "done"
    /\ schemaCalls = <<result>>
    /\ Len(reads) >= 2
    /\ \E i \in 2..Len(reads) : SchemaError(OnItsOwn(reads[i])) # ""

\* the addresses of the mappings and sequences that the object at a holds,
\* itself included
RECURSIVE MutableNodes(_, _)
MutableNodes(h, a) ==
    IF IsImmutable(h[a]) THEN {}
    ELSE {a} \cup UNION {MutableNodes(h, h[a].kids[i]) : i \in 1..Len(h[a].kids)}

\* C25: the tree that _deep_merge returned shares no mapping and no sequence
\* with base or with override.
C25_ResultSharesNothing ==
    hpc = "merged" =>
        MutableNodes(heap, hOut)
            \cap (MutableNodes(heap, hBase) \cup MutableNodes(heap, hOverride)) = {}

\* C26: a call of _deep_merge whose base or override is no mapping raises
\* InvalidMergeInput and returns nothing.
C26_NonMappingRejected ==
    (hpc \in {"merged", "merge raised"}
     /\ ~(IsMap(heap[hBase]) /\ IsMap(heap[hOverride])))
        => hpc = "merge raised" /\ hErr = "InvalidMergeInput" /\ hOut = 0

\* the text of a comment: what follows the white space and the `#`s that
\* open the action, without the white space around it
TextOfComment(action) == Strip(LstripHash(Lstrip(action)))

\* the action is a comment that contains a configured phrase, whatever the case
SignalsCompletion(hook, action) ==
    /\ hook.enabled
    /\ action # ""
    /\ Lstrip(action) # "" /\ SubSeq(Lstrip(action), 1, 1) = "#"
    /\ \E i \in 1..Len(hook.phrases) :
          Contains(Lower(TextOfComment(action)), Lower(hook.phrases[i]))

\* C22: a call of on_actions_generated sets step.action to `submit` and
\* counts one detection when the hook is enabled, the action is not empty,
\* its first character after white space is `#` and the comment text holds
\* a configured phrase in any case; otherwise it leaves action and thought
\* as they are and the counter as it is; no other step changes the counter,
\* which starts at zero.
C22_ConvertsExactlyComments ==
    /\ cHook.detections = 0
    /\ [][/\ cpc = "generated" =>
                IF SignalsCompletion(cHook, cStep.action)
                THEN /\ cStep'.action = "submit"
                     /\ cHook'.detections = cHook.detections + 1
                ELSE /\ cStep' = cStep
                     /\ cHook'.detections = cHook.detections
          /\ cpc # "generated" => cHook' = cHook
          /\ cHook'.enabled = cHook.enabled /\ cHook'.phrases = cHook.phrases]_vars

\* a comment with a phrase in other case, behind white space and two `#`,
\* was converted, after an action that names the phrase outside a comment
\* was not
C22_Witness ==
    /\ cpc = "generate"
    /\ cHook.detections = 1
    /\ cStep.action = "submit"
    /\ Contains(cStep.thought, "I am done.\n\n[CompletionDetectorHook")

\* C21: with the hook enabled and force_submit_on_max_errors true, once the
\* total error count has reached max_total_errors the forced-submit flag is
\* set, from the end of the on_step_done call that counted the error on.
C21_ForcedAtMaxTotalErrors ==
    (tHook.enabled /\ tHook.force_submit_on_max_errors
     /\ tHook.total_errors >= tHook.max_total_errors)
        => tHook.forced_submit

\* C27: the forced-submit flag, once set, stays set through every later
\* on_step_done, after a success as after an error; an on_actions_generated
\* call made while it is set, with the hook enabled and
\* force_submit_on_max_errors true, leaves step.action equal to `submit`;
\* and with force_submit_on_max_errors false the flag is never set and
\* on_actions_generated leaves the step as it is.
C27_ForcedSubmitLatches ==
    /\ [](~tHook.force_submit_on_max_errors => ~tHook.forced_submit)
    /\ [][/\ tHook.forced_submit => tHook'.forced_submit
          /\ (tpc = "generated" /\ tHook.enabled /\ tHook.force_submit_on_max_errors
              /\ tHook.forced_submit) => tStep'.action = "submit"
          /\ (tpc = "generated" /\ ~tHook.force_submit_on_max_errors) => tStep' = tStep
          /\ tHook'.enabled = tHook.enabled
          /\ tHook'.force_submit_on_max_errors = tHook.force_submit_on_max_errors]_vars

\* the flag is set, an error was counted after the one that set it, and the
\* action generated since then was replaced by `submit`
C27_Witness ==
    /\ tHook.forced_submit
    /\ tpc = "execute"
    /\ tStep.action = "submit"
    /\ Contains(tStep.thought, "Forcing submission instead of:  ls -l")
    /\ tHook.total_errors > tHook.max_total_errors
====
